---- MODULE Spec2Model ----
(***************************************************************************)
(* LightGBM leaf partition store (DataPartition) and the block scheduler   *)
(* (Threading) it drives.                                                  *)
(*                                                                         *)
(* Arrays are functions over 0..n-1, as in the C++ code.  A Split call is  *)
(* modelled in steps so that the block tasks of the two parallel regions   *)
(* interleave: SplitBegin (read the leaf boundary, BlockInfo, fork),       *)
(* PartitionBlock(i) (one task of Threading::For), SplitMergeStart (join,  *)
(* prefix sums, fork), MergeBlock(i) (one iteration of the copy loop),     *)
(* SplitEnd (join, leaf boundary update).                                  *)
(*                                                                         *)
(* Specifications:                                                         *)
(*   Spec         construction, SetUsedDataIndices, Init and Split;        *)
(*   SpecWorkers  Spec with the same calls replayed on a one-worker store; *)
(*   SpecOracle   Split with tasks that begin and end in separate steps    *)
(*                and an oracle that may raise an exception;               *)
(*   SpecReset    ResetByLeafPred between Init and SetUsedDataIndices;     *)
(*   SpecFor      one call of Threading::For with arbitrary arguments and  *)
(*                a body that may raise;                                   *)
(*   SpecBalanced one call of Threading::BalancedFor;                      *)
(*   SpecFrame    SetUsedDataIndices, the caller's writes to its buffer,   *)
(*                ResetLeaves and Init;                                    *)
(*   SpecResize   ResetLeaves and ResetNumData followed by Init and Split; *)
(*   SpecAlloc    one call of AlignmentAllocator::allocate;                *)
(*   SpecWide     Split on a store of WideData rows under WideThreads      *)
(*                threads, where a block gets an empty sub-range;          *)
(*   SpecLive     Split and Threading::For under weak fairness of the      *)
(*                steps of the thread team;                                *)
(*   SpecThreads  Init and Split under an ambient thread count that the    *)
(*                application changes between calls;                       *)
(*   SpecChain    Init and up to ChainSplits Split calls on a store of     *)
(*                ChainLeaves leaves;                                      *)
(*   SpecCommute  the same, with the last two Split calls also made in the *)
(*                other order on a copy of the store;                      *)
(*   SpecBag      ResetNumData, SetUsedDataIndices and Init, the bagging   *)
(*                subset being kept across a resize;                       *)
(*   SpecInfo     one call of Threading::BlockInfo in the arithmetic of a  *)
(*                signed INDEX_T of IndexBits bits.                        *)
(*                                                                         *)
(* In every specification but SpecThreads the ambient thread count stays   *)
(* the one observed at construction.                                       *)
(*                                                                         *)
(* Scaling: the source calls Threading::For with a minimum block size of   *)
(* 1024 and aligns block sizes to kAlignedSize = 32.  Leaves of more than  *)
(* 1024 ids are out of reach of explicit-state checking, so the model uses *)
(* MinBlockSize and kAlignedSize as small bounds; the code paths taken     *)
(* (zero, one or several blocks, a short last block) are the same.         *)
(***************************************************************************)
EXTENDS Integers, Sequences, FiniteSets, TLC

\* ------------------------------------------------------------------ bounds
MaxData == 3
MaxLeaves == 3
MaxThreads == 2
MaxInits == 2
MaxInitRun == 2
MaxSplits == 2
MaxBag == 2
MinBlockSize == 2
kAlignedSize == 2
\* Bounds of the calls made to the scheduler on its own (Threading::For and
\* Threading::BalancedFor with arbitrary arguments).
MaxTeam == 3
MaxStart == 1
MaxCount == 5
MaxMinBlock == 3
MaxTasks == 3
MaxSize == 2
\* Bound on the number of ResetByLeafPred() calls.
MaxResets == 1
\* Bound on the number of ResetLeaves() and ResetNumData() calls.
MaxResizes == 2
\* Width in bits of std::size_t in the allocator (64 in the build).
SizeBits == 5
\* Rows and threads of the store on which a block of Split gets an empty
\* sub-range: with three threads and seven rows the block size is 4 and the
\* third block starts at 8 (with 1024 and 32 this takes a team of 35 threads
\* or more, e.g. 64 threads and 65537 rows: block size 1056, block 63 starts
\* at 66528).
WideData == 7
WideThreads == 3

\* Rows, leaves and Split calls of the store on which a third Split follows
\* the Split of an empty leaf.
ChainData == 2
ChainLeaves == 4
ChainSplits == 3

\* Width in bits of the signed INDEX_T of Threading::BlockInfo and of int
\* (32 in the build, where data_size_t is a 32 bit integer).
IndexBits == 5

\* Values an out-of-bounds read of a bookkeeping array can deliver.
UBValues == {-1, 0, 1}

\* The null pointer: a value distinct from every buffer of row ids.
Null == <<-1>>

\* The empty exception pointer of a parallel region (ex_ptr_ == nullptr); a
\* captured exception is named by the id of the task that raised it.
NoEx == -1

\* ----------------------------------------------------------------- helpers
Min(a, b) == IF a <= b THEN a ELSE b

\* C++ integer division truncates toward zero.
CDiv(a, b) == IF a >= 0 THEN a \div b ELSE -((-a) \div b)

\* std::vector<T>(n) / resize(n): n value-initialised cells.
Arr(n, v) == [i \in 0..(n - 1) |-> v]

\* std::vector::resize(n) on an array that has cells: the first n cells are
\* kept, cells added are value-initialised.
Resize(f, n) == [i \in 0..(n - 1) |-> IF i \in DOMAIN f THEN f[i] ELSE 0]

\* The cells [pos, pos + n) of array f as a sequence.
Slice(f, pos, n) == [k \in 1..n |-> f[pos + k - 1]]

\* std::copy_n / memcpy: n cells of src from srcpos to dst at dstpos.
CopyN(src, srcpos, n, dst, dstpos) ==
  [p \in DOMAIN dst |->
     IF p >= dstpos /\ p < dstpos + n THEN src[srcpos + (p - dstpos)] ELSE dst[p]]

\* Writes the sequence s to dst at dstpos.
WriteSeq(s, dst, dstpos) ==
  [p \in DOMAIN dst |->
     IF p >= dstpos /\ p < dstpos + Len(s) THEN s[p - dstpos + 1] ELSE dst[p]]

RECURSIVE SumTo(_, _)
\* f[0] + ... + f[n-1]
SumTo(f, n) == IF n <= 0 THEN 0 ELSE f[n - 1] + SumTo(f, n - 1)

SeqSet(s) == {s[k] : k \in DOMAIN s}

\* All sequences of distinct elements of S of length n.
RECURSIVE DistinctSeqs(_, _)
DistinctSeqs(S, n) ==
  IF n = 0 THEN {<<>>}
  ELSE UNION {{Append(s, x) : x \in S \ SeqSet(s)} : s \in DistinctSeqs(S, n - 1)}

\* ------------------------------------------------------- Threading (pure)
\* SIZE_ALIGNED(t): t rounded up to a multiple of kAlignedSize.
SIZE_ALIGNED(t) == CDiv(t + kAlignedSize - 1, kAlignedSize) * kAlignedSize

\* Faulty variant of BlockInfo: the number of blocks is count / min rounded down.
BlockInfoRoundsDown(nthreads, cnt, min_cnt_per_block) ==
  LET out_nblock == Min(nthreads, CDiv(cnt, min_cnt_per_block))
  IN [nblock |-> out_nblock,
      block_size |-> IF out_nblock > 1
                     THEN SIZE_ALIGNED(CDiv(cnt + out_nblock - 1, out_nblock))
                     ELSE cnt]

\* Threading::BlockInfo with the ambient thread count passed as num_threads.
BlockInfo(nthreads, cnt, min_cnt_per_block) ==
  LET out_nblock == Min(nthreads, CDiv(cnt + min_cnt_per_block - 1, min_cnt_per_block))
  IN [nblock |-> out_nblock,
      block_size |-> IF out_nblock > 1
                     THEN SIZE_ALIGNED(CDiv(cnt + out_nblock - 1, out_nblock))
                     ELSE cnt]

\* Faulty variant of ForBlock: the end of the sub-range is not clamped to end.
ForBlockNoClamp(start, end, num_inner, i) ==
  LET inner_start == start + num_inner * i
  IN [inner_start |-> inner_start, inner_end |-> inner_start + num_inner]

\* Faulty variant of ForBlock: the sub-ranges are laid out from 0, not from start.
ForBlockFromZero(start, end, num_inner, i) ==
  LET inner_start == num_inner * i
  IN [inner_start |-> inner_start, inner_end |-> Min(end, inner_start + num_inner)]

\* Threading::For, the sub-range handed to task i.
ForBlock(start, end, num_inner, i) ==
  LET inner_start == start + num_inner * i
  IN [inner_start |-> inner_start, inner_end |-> Min(end, inner_start + num_inner)]

\* The values of the signed INDEX_T.
IndexMin == 0 - 2 ^ (IndexBits - 1)
IndexMax == 2 ^ (IndexBits - 1) - 1
InIndexT(x) == x >= IndexMin /\ x <= IndexMax

\* What a signed operation whose exact result is x delivers.  A result outside
\* INDEX_T is undefined behaviour: the build either wraps it around (mode
\* "wrap") or goes on with the exact value in a wider register (mode "wide").
Arith(x, mode) ==
  IF InIndexT(x) \/ mode = "wide" THEN x
  ELSE ((x - IndexMin) % (2 ^ IndexBits)) + IndexMin

\* Threading::BlockInfo in the arithmetic of INDEX_T, operation by operation;
\* inter collects the exact result of every addition, subtraction and
\* multiplication before it is stored.
BlockInfoIndexT(nthreads, cnt, min_cnt_per_block, mode) ==
  LET a1 == cnt + min_cnt_per_block
      a2 == Arith(a1, mode) - 1
      out_nblock == Min(nthreads, CDiv(Arith(a2, mode), min_cnt_per_block))
      a3 == cnt + out_nblock
      a4 == Arith(a3, mode) - 1
      t == CDiv(Arith(a4, mode), out_nblock)
      a5 == t + kAlignedSize
      a6 == Arith(a5, mode) - 1
      a7 == CDiv(Arith(a6, mode), kAlignedSize) * kAlignedSize
  IN [cnt |-> cnt, min_cnt_per_block |-> min_cnt_per_block, at |-> "done",
      nblock |-> out_nblock,
      block_size |-> IF out_nblock > 1 THEN Arith(a7, mode) ELSE cnt,
      inter |-> IF out_nblock > 1 THEN {a1, a2, a3, a4, a5, a6, a7} ELSE {a1, a2}]

\* OMP_LOOP_EX_END: the catch clause of a task hands the exception of task i to
\* ThreadExceptionHelper::CaptureException, which keeps it only when it holds
\* none yet (e is the exception pointer of the region).
CaptureException(e, i) == IF e # NoEx THEN e ELSE i

\* Faulty variant of ForResult: OMP_THROW_EX is missing, the call always returns.
ForResultSwallows(e, n_block) == [kind |-> "return", val |-> n_block]

\* OMP_THROW_EX after the loop of Threading::For: the exception held is thrown
\* again, otherwise the call returns n_block.
ForResult(e, n_block) ==
  IF e # NoEx THEN [kind |-> "throw", val |-> e] ELSE [kind |-> "return", val |-> n_block]

\* ArrayArgs<INDEX_T>::ArgMin: the index of the smallest entry, the lowest such
\* index when several entries are smallest.
ArgMin(a) ==
  CHOOSE k \in DOMAIN a : \A j \in DOMAIN a : a[k] < a[j] \/ (a[k] = a[j] /\ k <= j)

\* Faulty variant of the assignment loop: a group grows by one per task, not by
\* the size of the task.
BalancedAssignCountsTasks(b) ==
  LET cur_group == ArgMin(b.group_sizes)
  IN [b EXCEPT !.group_sizes[cur_group] = @ + 1,
               !.groups[cur_group] = Append(@, b.i),
               !.i = @ + 1]

\* Threading::BalancedFor, lines 76-79: iteration b.i of the assignment loop
\* (b holds n, size, groups, group_sizes and the loop counter i).
BalancedAssign(b) ==
  LET cur_group == ArgMin(b.group_sizes)
  IN [b EXCEPT !.group_sizes[cur_group] = @ + b.size[b.i],
               !.groups[cur_group] = Append(@, b.i),
               !.i = @ + 1]

\* ------------------------------------------------ AlignmentAllocator (pure)
\* The values of std::size_t, and sizeof(T) for the element types in use.
SizeMod == 2 ^ SizeBits
SizeOfs == {1, 2, 4}

\* AlignmentAllocator::max_size for elements of size_of bytes; 0 - 1 wraps
\* around in std::size_t.
max_size(size_of) == ((0 - 1) % SizeMod) \div size_of

\* Faulty variant of AllocateCheck: the guard against overflow is missing.
AllocateCheckNoGuard(n, size_of) ==
  IF n = 0 THEN [at |-> "done", ret |-> "null", bytes |-> 0]
  ELSE [at |-> "malloc", ret |-> "none", bytes |-> (n * size_of) % SizeMod]

\* AlignmentAllocator::allocate, lines 795-802: the two guards, then the
\* byte count handed to _mm_malloc (a product in std::size_t).
AllocateCheck(n, size_of) ==
  IF n = 0 THEN [at |-> "done", ret |-> "null", bytes |-> 0]
  ELSE IF n > max_size(size_of)
       THEN [at |-> "done", ret |-> "length_error", bytes |-> 0]
       ELSE [at |-> "malloc", ret |-> "none", bytes |-> (n * size_of) % SizeMod]

\* Lines 803-807: what allocate does with the pointer _mm_malloc returned.
AllocateResult(pv) == IF pv = "NULL" THEN "bad_alloc" ELSE "block"

\* ------------------------------------------------------------- the oracle
\* Dataset::Split on one slice: ids routed left go to lte_indices, the rest to
\* gt_indices, both in slice order; the return value is the left count.
DatasetSplit(slice, goLeft) ==
  [lte |-> SelectSeq(slice, LAMBDA x : x \in goLeft),
   gt |-> SelectSeq(slice, LAMBDA x : x \notin goLeft)]

\* ------------------------------------------- DataPartition on store records
\* A store record s holds the arrays of a DataPartition; a call record c holds
\* the locals of one Split call.

\* Faulty variant of Init: leaf_begin is not reset (the first std::fill is missing).
InitStoreKeepsBegin(s, used, used_count, nd) ==
  LET lc == [l \in DOMAIN s.leaf_count |-> 0]
  IN IF used = Null
     THEN [s EXCEPT !.leaf_count = [lc EXCEPT ![0] = nd],
                    !.indices = [i \in DOMAIN s.indices |-> IF i < nd THEN i ELSE @[i]]]
     ELSE [s EXCEPT !.leaf_count = [lc EXCEPT ![0] = used_count],
                    !.indices = WriteSeq(SubSeq(used, 1, used_count), @, 0)]

\* Faulty variant of Init: the counts are not reset and leaf 0 is added to.
InitStoreAccumulates(s, used, used_count, nd) ==
  LET lb == [l \in DOMAIN s.leaf_begin |-> 0]
  IN IF used = Null
     THEN [s EXCEPT !.leaf_begin = lb,
                    !.leaf_count[0] = @ + nd,
                    !.indices = [i \in DOMAIN s.indices |-> IF i < nd THEN i ELSE @[i]]]
     ELSE [s EXCEPT !.leaf_begin = lb,
                    !.leaf_count[0] = @ + used_count,
                    !.indices = WriteSeq(SubSeq(used, 1, used_count), @, 0)]

\* Faulty variant of Init: the bagging subset is ignored, all data is used.
InitStoreIgnoresSubset(s, used, used_count, nd) ==
  [s EXCEPT !.leaf_begin = [l \in DOMAIN s.leaf_begin |-> 0],
            !.leaf_count = [[l \in DOMAIN s.leaf_count |-> 0] EXCEPT ![0] = nd],
            !.indices = [i \in DOMAIN s.indices |-> IF i < nd THEN i ELSE @[i]]]

\* DataPartition::Init
InitStore(s, used, used_count, nd) ==
  LET lb == [l \in DOMAIN s.leaf_begin |-> 0]
      lc == [l \in DOMAIN s.leaf_count |-> 0]
  IN IF used = Null
     THEN [s EXCEPT !.leaf_begin = lb,
                    !.leaf_count = [lc EXCEPT ![0] = nd],
                    !.indices = [i \in DOMAIN s.indices |-> IF i < nd THEN i ELSE @[i]]]
     ELSE [s EXCEPT !.leaf_begin = lb,
                    !.leaf_count = [lc EXCEPT ![0] = used_count],
                    !.indices = WriteSeq(SubSeq(used, 1, used_count), @, 0)]

\* Split, lines 119-124: leaf boundary and the block layout of Threading::For.
SplitLocals(s, nthreads, leaf, right_leaf, goLeft) ==
  LET begin == s.leaf_begin[leaf]
      cnt == s.leaf_count[leaf]
      bi == BlockInfo(nthreads, cnt, MinBlockSize)
  IN [leaf |-> leaf, right_leaf |-> right_leaf, goLeft |-> goLeft,
      begin |-> begin, cnt |-> cnt,
      nblock |-> bi.nblock, block_size |-> bi.block_size, left_cnt |-> 0]

\* Faulty variant of the partition body: the ids routed left are written to
\* indices in place instead of to the scratch buffer.
PartitionBodyInPlace(s, c, i) ==
  LET b == ForBlock(0, c.cnt, c.block_size, i)
      cur_start == b.inner_start
      cur_cnt == b.inner_end - b.inner_start
  IN IF cur_cnt <= 0
     THEN [s EXCEPT !.left_cnts_buf[i] = 0, !.right_cnts_buf[i] = 0]
     ELSE LET o == DatasetSplit(Slice(s.indices, c.begin + cur_start, cur_cnt), c.goLeft)
          IN [s EXCEPT !.indices = WriteSeq(o.lte, @, c.begin + cur_start),
                       !.temp_left_indices = WriteSeq(o.lte, @, cur_start),
                       !.temp_right_indices = WriteSeq(o.gt, @, cur_start),
                       !.offsets_buf[i] = cur_start,
                       !.left_cnts_buf[i] = Len(o.lte),
                       !.right_cnts_buf[i] = cur_cnt - Len(o.lte)]

\* Faulty variant of the partition body: every block records offset 0.
PartitionBodyOffsetZero(s, c, i) ==
  LET b == ForBlock(0, c.cnt, c.block_size, i)
      cur_start == b.inner_start
      cur_cnt == b.inner_end - b.inner_start
  IN IF cur_cnt <= 0
     THEN [s EXCEPT !.left_cnts_buf[i] = 0, !.right_cnts_buf[i] = 0]
     ELSE LET o == DatasetSplit(Slice(s.indices, c.begin + cur_start, cur_cnt), c.goLeft)
          IN [s EXCEPT !.temp_left_indices = WriteSeq(o.lte, @, cur_start),
                       !.temp_right_indices = WriteSeq(o.gt, @, cur_start),
                       !.offsets_buf[i] = 0,
                       !.left_cnts_buf[i] = Len(o.lte),
                       !.right_cnts_buf[i] = cur_cnt - Len(o.lte)]

\* Split, lines 125-141: the body run by task i of Threading::For.
PartitionBody(s, c, i) ==
  LET b == ForBlock(0, c.cnt, c.block_size, i)
      cur_start == b.inner_start
      cur_cnt == b.inner_end - b.inner_start
  IN IF cur_cnt <= 0
     THEN [s EXCEPT !.left_cnts_buf[i] = 0, !.right_cnts_buf[i] = 0]
     ELSE LET o == DatasetSplit(Slice(s.indices, c.begin + cur_start, cur_cnt), c.goLeft)
          IN [s EXCEPT !.temp_left_indices = WriteSeq(o.lte, @, cur_start),
                       !.temp_right_indices = WriteSeq(o.gt, @, cur_start),
                       !.offsets_buf[i] = cur_start,
                       !.left_cnts_buf[i] = Len(o.lte),
                       !.right_cnts_buf[i] = cur_cnt - Len(o.lte)]

\* Split, lines 132-136: the cells of the two scratch buffers that the oracle
\* writes for task i, marked in st with the number k of the Split call.
StampBody(st, s, c, i, k) ==
  LET b == ForBlock(0, c.cnt, c.block_size, i)
      cur_start == b.inner_start
      cur_cnt == b.inner_end - b.inner_start
  IN IF cur_cnt <= 0 THEN st
     ELSE LET o == DatasetSplit(Slice(s.indices, c.begin + cur_start, cur_cnt), c.goLeft)
          IN [left |-> [p \in DOMAIN st.left |->
                          IF p >= cur_start /\ p < cur_start + Len(o.lte) THEN k ELSE st.left[p]],
              right |-> [p \in DOMAIN st.right |->
                          IF p >= cur_start /\ p < cur_start + Len(o.gt) THEN k ELSE st.right[p]]]

RECURSIVE PrefixLoop(_, _, _, _)
\* Split, lines 146-149: the loop  pos[i] = pos[i - 1] + cnts[i - 1]  from i on.
PrefixLoop(pos, cnts, i, nblock) ==
  IF i >= nblock THEN pos
  ELSE PrefixLoop([pos EXCEPT ![i] = pos[i - 1] + cnts[i - 1]], cnts, i + 1, nblock)

\* Faulty variant of the write positions: the loop of lines 146-149 is missing,
\* only the positions of block 0 are set.
PrefixSumsFirstOnly(s, c) ==
  [s EXCEPT !.left_write_pos_buf = [@ EXCEPT ![0] = 0],
            !.right_write_pos_buf = [@ EXCEPT ![0] = 0]]

\* Split, lines 144-149: the write positions of the blocks.
PrefixSums(s, c) ==
  [s EXCEPT
     !.left_write_pos_buf = PrefixLoop([@ EXCEPT ![0] = 0], s.left_cnts_buf, 1, c.nblock),
     !.right_write_pos_buf = PrefixLoop([@ EXCEPT ![0] = 0], s.right_cnts_buf, 1, c.nblock)]

\* Faulty variant of the total left count: only block 0 is counted.
LeftCntFirstBlock(s, c, ub) ==
  IF c.nblock >= 1 THEN s.left_cnts_buf[0] ELSE ub

\* Split, line 150: the total left count.  With nblock <= 0 the two reads are at
\* index nblock - 1 < 0, outside the arrays: the value is whatever ub delivers.
LeftCnt(s, c, ub) ==
  IF c.nblock >= 1
  THEN s.left_write_pos_buf[c.nblock - 1] + s.left_cnts_buf[c.nblock - 1]
  ELSE ub

\* Faulty variant of the copy loop: the blocks are laid out from the end of each
\* output region backwards, so later blocks come first.
MergeBodyBlocksReversed(s, c, i) ==
  LET left_start == c.begin
      right_start == c.begin + c.left_cnt
      afterLeft == CopyN(s.temp_left_indices, s.offsets_buf[i], s.left_cnts_buf[i],
                         s.indices,
                         left_start + c.left_cnt - s.left_write_pos_buf[i] - s.left_cnts_buf[i])
  IN [s EXCEPT !.indices =
        CopyN(s.temp_right_indices, s.offsets_buf[i], s.right_cnts_buf[i],
              afterLeft,
              right_start + (c.cnt - c.left_cnt) - s.right_write_pos_buf[i]
                - s.right_cnts_buf[i])]

\* Split, lines 155-158: iteration i of the copy loop.
MergeBody(s, c, i) ==
  LET left_start == c.begin
      right_start == c.begin + c.left_cnt
      afterLeft == CopyN(s.temp_left_indices, s.offsets_buf[i], s.left_cnts_buf[i],
                         s.indices, left_start + s.left_write_pos_buf[i])
  IN [s EXCEPT !.indices =
        CopyN(s.temp_right_indices, s.offsets_buf[i], s.right_cnts_buf[i],
              afterLeft, right_start + s.right_write_pos_buf[i])]

\* Faulty variant of ResetLeaves: leaf_count is not resized.
ResetLeavesStoreBeginOnly(s, nl) == [s EXCEPT !.leaf_begin = Resize(@, nl)]

\* DataPartition::ResetLeaves(num_leaves), lines 45-46 (line 44 sets num_leaves_).
ResetLeavesStore(s, nl) ==
  [s EXCEPT !.leaf_begin = Resize(@, nl), !.leaf_count = Resize(@, nl)]

\* Faulty variant of ResetNumData: indices is not resized.
ResetNumDataStoreScratchOnly(s, nd) ==
  [s EXCEPT !.temp_left_indices = Resize(@, nd), !.temp_right_indices = Resize(@, nd)]

\* DataPartition::ResetNumData(num_data), lines 51-53 (line 50 sets num_data_).
ResetNumDataStore(s, nd) ==
  [s EXCEPT !.indices = Resize(@, nd),
            !.temp_left_indices = Resize(@, nd),
            !.temp_right_indices = Resize(@, nd)]

RECURSIVE BucketLoop(_, _, _)
\* ResetByLeafPred, lines 82-84: the loop  indices_per_leaf[leaf_pred[i]].push_back(i)
\* from i on.
BucketLoop(lp, per_leaf, i) ==
  IF i \notin DOMAIN lp THEN per_leaf
  ELSE BucketLoop(lp, [per_leaf EXCEPT ![lp[i]] = Append(@, i)], i + 1)

\* Faulty variant of LayoutStep: the bucket is copied to the start of indices.
LayoutStepAtBegin(s, bucket, i, offset) ==
  [s EXCEPT !.leaf_begin[i] = offset,
            !.leaf_count[i] = Len(bucket),
            !.indices = WriteSeq(bucket, @, 0)]

\* Faulty variant of LayoutStep: the count of the leaf is not stored.
LayoutStepKeepsCount(s, bucket, i, offset) ==
  [s EXCEPT !.leaf_begin[i] = offset,
            !.indices = WriteSeq(bucket, @, offset)]

\* ResetByLeafPred, lines 87-89: leaf i gets its begin, its count and its ids.
LayoutStep(s, bucket, i, offset) ==
  [s EXCEPT !.leaf_begin[i] = offset,
            !.leaf_count[i] = Len(bucket),
            !.indices = WriteSeq(bucket, @, offset)]

RECURSIVE LayoutLoop(_, _, _, _, _)
\* ResetByLeafPred, lines 85-91: the loop over the leaves from leaf i on.
LayoutLoop(s, per_leaf, i, offset, nl) ==
  IF i >= nl THEN s
  ELSE LET s1 == LayoutStep(s, per_leaf[i], i, offset)
       IN LayoutLoop(s1, per_leaf, i + 1, offset + s1.leaf_count[i], nl)

\* DataPartition::ResetByLeafPred(leaf_pred, num_leaves) on the arrays.
ResetByLeafPredStore(s, lp, nl) ==
  LayoutLoop(ResetLeavesStore(s, nl), BucketLoop(lp, Arr(nl, <<>>), 0), 0, 0, nl)

\* Faulty variant of the boundary update: the right leaf gets the parent's count.
UpdateLeafBoundaryNoSubtract(s, c) ==
  [s EXCEPT !.leaf_count = [@ EXCEPT ![c.leaf] = c.left_cnt,
                                     ![c.right_leaf] = c.cnt],
            !.leaf_begin = [@ EXCEPT ![c.right_leaf] = c.left_cnt + c.begin]]

\* Split, lines 161-163: update leaf boundary.
UpdateLeafBoundary(s, c) ==
  [s EXCEPT !.leaf_count = [@ EXCEPT ![c.leaf] = c.left_cnt,
                                     ![c.right_leaf] = c.cnt - c.left_cnt],
            !.leaf_begin = [@ EXCEPT ![c.right_leaf] = c.left_cnt + c.begin]]

\* ------------------------------------------------------------------- state
VARIABLES
  num_data,             \* num_data_
  num_leaves,           \* num_leaves_
  leaf_begin,           \* leaf_begin_
  leaf_count,           \* leaf_count_
  indices,              \* indices_
  temp_left_indices,    \* temp_left_indices_
  temp_right_indices,   \* temp_right_indices_
  used_data_indices,    \* used_data_indices_: Null or the caller's buffer
  used_data_count,      \* used_data_count_
  num_threads,          \* num_threads_, the thread count seen by the constructor
  offsets_buf,          \* offsets_buf_
  left_cnts_buf,        \* left_cnts_buf_
  right_cnts_buf,       \* right_cnts_buf_
  left_write_pos_buf,   \* left_write_pos_buf_
  right_write_pos_buf,  \* right_write_pos_buf_
  omp_threads,          \* the ambient OpenMP thread count
  pc,                   \* "idle", or the phase of the Split call in flight
  todo,                 \* block tasks of the current parallel region not yet run
  call,                 \* locals of the Split call in flight (or of the last one)
  pre,                  \* the store as it was when that Split call started
  last,                 \* the last operation that returned
  in_use,               \* leaf ids the tree grower has handed out since Init
  inits,                \* number of runs of back-to-back Init() calls so far
  splits,               \* number of Split() calls so far
  init_run,             \* length of the run of Init() calls that last ends
  one,                  \* the same calls replayed on a store run by one worker
  ex,                   \* omp_except_helper.ex_ptr_ of the parallel region in flight
  running,              \* tasks of the parallel region that have begun and not ended
  finished,             \* the tasks of the region that have ended, in that order
  raised,               \* the tasks of the region whose body raised an exception
  for_call,             \* arguments, locals and result of a Threading::For call
  invoked,              \* how often inner_fun was called with each argument triple
  bal_call,             \* arguments and locals of a Threading::BalancedFor call
  worker,               \* per thread of BalancedFor: the tasks it ran, and whether
                        \* the last of them is still running
  reset_call,           \* the arguments of the last ResetByLeafPred call
  resets,               \* number of ResetByLeafPred() calls so far
  resize_call,          \* the sizes last asked for: the arguments of the constructor
                        \* or of the last ResetLeaves and ResetNumData calls
  resizes,              \* number of ResetLeaves() and ResetNumData() calls so far
  alloc,                \* argument and outcome of an AlignmentAllocator::allocate call
  stamp,                \* per cell of the two scratch buffers: the number of the
                        \* Split call whose oracle wrote the cell last (0: none)
  swap,                 \* the last two Split calls made in the other order on a
                        \* copy of the store
  info                  \* arguments, intermediate values and results of a
                        \* Threading::BlockInfo call in the arithmetic of INDEX_T

store_vars == <<leaf_begin, leaf_count, indices, temp_left_indices, temp_right_indices,
                offsets_buf, left_cnts_buf, right_cnts_buf, left_write_pos_buf,
                right_write_pos_buf>>
config_vars == <<num_data, num_leaves, num_threads, omp_threads>>
bag_vars == <<used_data_indices, used_data_count>>
call_vars == <<pc, todo, call, pre>>
region_vars == <<ex, running, finished, raised>>
sched_vars == <<for_call, invoked, bal_call, worker>>
reset_vars == <<reset_call, resets>>
resize_vars == <<resize_call, resizes>>
alloc_vars == <<alloc>>
stamp_vars == <<stamp>>
swap_vars == <<swap>>
info_vars == <<info>>
vars == <<store_vars, config_vars, bag_vars, call_vars, last, in_use, inits, splits, init_run, one,
          region_vars, sched_vars, reset_vars, resize_vars, alloc_vars, stamp_vars, swap_vars, info_vars>>

\* The arrays of the store as one record.
Store ==
  [leaf_begin |-> leaf_begin, leaf_count |-> leaf_count, indices |-> indices,
   temp_left_indices |-> temp_left_indices, temp_right_indices |-> temp_right_indices,
   offsets_buf |-> offsets_buf, left_cnts_buf |-> left_cnts_buf,
   right_cnts_buf |-> right_cnts_buf, left_write_pos_buf |-> left_write_pos_buf,
   right_write_pos_buf |-> right_write_pos_buf]

\* The store becomes s.
SetStore(s) ==
  /\ leaf_begin' = s.leaf_begin
  /\ leaf_count' = s.leaf_count
  /\ indices' = s.indices
  /\ temp_left_indices' = s.temp_left_indices
  /\ temp_right_indices' = s.temp_right_indices
  /\ offsets_buf' = s.offsets_buf
  /\ left_cnts_buf' = s.left_cnts_buf
  /\ right_cnts_buf' = s.right_cnts_buf
  /\ left_write_pos_buf' = s.left_write_pos_buf
  /\ right_write_pos_buf' = s.right_write_pos_buf

\* DataPartition::DataPartition(num_data, num_leaves) under nt threads.
NewStore(nd, nl, nt) ==
  [leaf_begin |-> Arr(nl, 0), leaf_count |-> Arr(nl, 0), indices |-> Arr(nd, 0),
   temp_left_indices |-> Arr(nd, 0), temp_right_indices |-> Arr(nd, 0),
   offsets_buf |-> Arr(nt, 0), left_cnts_buf |-> Arr(nt, 0),
   right_cnts_buf |-> Arr(nt, 0), left_write_pos_buf |-> Arr(nt, 0),
   right_write_pos_buf |-> Arr(nt, 0)]

NoCall == [leaf |-> 0, right_leaf |-> 0, goLeft |-> {}, begin |-> 0, cnt |-> 0,
           nblock |-> 0, block_size |-> 0, left_cnt |-> 0]

RECURSIVE RunPartition(_, _, _)
\* The partition tasks i, i + 1, ..., nblock - 1 run one after another.
RunPartition(s, c, i) ==
  IF i >= c.nblock THEN s ELSE RunPartition(PartitionBody(s, c, i), c, i + 1)

RECURSIVE RunMerge(_, _, _)
\* The iterations i, i + 1, ..., nblock - 1 of the copy loop run one after another.
RunMerge(s, c, i) ==
  IF i >= c.nblock THEN s ELSE RunMerge(MergeBody(s, c, i), c, i + 1)

\* DataPartition::Split as a whole, its blocks run in index order.
RunSplit(s, nthreads, leaf, right_leaf, goLeft, ub) ==
  LET c0 == SplitLocals(s, nthreads, leaf, right_leaf, goLeft)
      s1 == PrefixSums(RunPartition(s, c0, 0), c0)
      c1 == [c0 EXCEPT !.left_cnt = LeftCnt(s1, c0, ub)]
  IN UpdateLeafBoundary(RunMerge(s1, c1, 0), c1)

\* The leaf's range lies inside indices (an empty or negative count reads no cell).
RangeInBuffer(s, leaf) ==
  \/ s.leaf_count[leaf] <= 0
  \/ /\ s.leaf_begin[leaf] \in DOMAIN s.indices
     /\ s.leaf_begin[leaf] + s.leaf_count[leaf] - 1 \in DOMAIN s.indices

\* GetIndexOnLeaf: the ids of the leaf's range, in order.
GetIndexOnLeaf(s, leaf) ==
  IF RangeInBuffer(s, leaf) /\ s.leaf_count[leaf] > 0
  THEN Slice(s.indices, s.leaf_begin[leaf], s.leaf_count[leaf])
  ELSE <<>>

Snapshot(s) == [indices |-> s.indices, leaf_begin |-> s.leaf_begin, leaf_count |-> s.leaf_count]

\* ----------------------------------------------------------------- actions
\* No call to Threading::For or Threading::BalancedFor has been made.
NoFor == [start |-> 0, end |-> 0, min_block_size |-> 1,
          n_block |-> 1, num_inner |-> 0, ret |-> [kind |-> "none", val |-> 0]]
NoBalanced == [n |-> 0, size |-> <<>>, groups |-> <<>>, group_sizes |-> <<>>, i |-> 0]

\* No call to Threading::BlockInfo in the arithmetic of INDEX_T has been made.
NoInfo == [cnt |-> 0, min_cnt_per_block |-> 1, at |-> "none", nblock |-> 0, block_size |-> 0,
           inter |-> {}]

\* No call to AlignmentAllocator::allocate has been made.
NoAlloc == [n |-> 0, size_of |-> 1, at |-> "none", ret |-> "none",
            bytes |-> 0, mallocs |-> 0, pv |-> "none"]

NoRegion ==
  /\ ex = NoEx
  /\ running = {}
  /\ finished = <<>>
  /\ raised = {}

NoSchedCall ==
  /\ for_call = NoFor
  /\ invoked = <<>>
  /\ bal_call = NoBalanced
  /\ worker = <<>>

\* A store constructed as DataPartition(nd, nl) under nt threads; nothing has
\* been called on it yet.
Constructed(nd, nl, nt) ==
    LET s == NewStore(nd, nl, nt) IN
    /\ num_data = nd
    /\ num_leaves = nl
    /\ num_threads = nt
    /\ omp_threads = nt
    /\ leaf_begin = s.leaf_begin
    /\ leaf_count = s.leaf_count
    /\ indices = s.indices
    /\ temp_left_indices = s.temp_left_indices
    /\ temp_right_indices = s.temp_right_indices
    /\ offsets_buf = s.offsets_buf
    /\ left_cnts_buf = s.left_cnts_buf
    /\ right_cnts_buf = s.right_cnts_buf
    /\ left_write_pos_buf = s.left_write_pos_buf
    /\ right_write_pos_buf = s.right_write_pos_buf
    /\ used_data_indices = Null
    /\ used_data_count = 0
    /\ pc = "idle"
    /\ todo = {}
    /\ call = NoCall
    /\ pre = Snapshot(s)
    /\ last = "new"
    /\ in_use = {}
    /\ inits = 0
    /\ splits = 0
    /\ init_run = 0
    /\ one = [st |-> NewStore(nd, nl, 1), ok |-> TRUE]
    /\ reset_call = [leaf_pred |-> <<>>, num_leaves |-> 0]
    /\ resets = 0
    /\ resize_call = [num_leaves |-> nl, num_data |-> nd]
    /\ resizes = 0
    /\ alloc = NoAlloc
    /\ stamp = [left |-> Arr(nd, 0), right |-> Arr(nd, 0)]
    /\ swap = [base |-> s, first |-> NoCall, st |-> Snapshot(s), done |-> FALSE]
    /\ info = NoInfo

Init ==
  \E nd \in 1..MaxData, nl \in 1..MaxLeaves, nt \in 1..MaxThreads :
    /\ Constructed(nd, nl, nt)
    /\ NoRegion
    /\ NoSchedCall

\* DataPartition::Init()
InitCall ==
  /\ pc = "idle"
  /\ IF last = "Init" THEN init_run < MaxInitRun ELSE inits < MaxInits
  /\ inits' = IF last = "Init" THEN inits ELSE inits + 1
  /\ SetStore(InitStore(Store, used_data_indices, used_data_count, num_data))
  /\ last' = "Init"
  /\ in_use' = {0}
  /\ call' = NoCall
  /\ pre' = Snapshot(InitStore(Store, used_data_indices, used_data_count, num_data))
  /\ init_run' = IF last = "Init" THEN init_run + 1 ELSE 1
  /\ UNCHANGED <<config_vars, bag_vars, pc, todo, splits>>

DataPartitionInit == InitCall /\ UNCHANGED <<one, region_vars, sched_vars, reset_vars, resize_vars, alloc_vars, stamp_vars, swap_vars, info_vars>>

\* DataPartition::SetUsedDataIndices(used_data_indices, num_used_data); the
\* caller passes nullptr or a buffer of num_used_data distinct row ids, no more
\* than the store holds (and at most MaxBag of them).
SetUsedDataIndices ==
  /\ pc = "idle"
  /\ \E n \in 0..Min(num_data, MaxBag) :
       \E buf \in DistinctSeqs(0..(num_data - 1), n) \cup {Null} :
         /\ used_data_indices' = buf
         /\ used_data_count' = IF buf = Null THEN 0 ELSE n
  /\ last' = "SetUsedDataIndices"
  /\ UNCHANGED <<store_vars, config_vars, call_vars, in_use, inits, splits, init_run, one,
               region_vars, sched_vars, reset_vars, resize_vars, alloc_vars, stamp_vars, swap_vars, info_vars>>

\* Split: entry, the leaf boundary is read and Threading::For forks its tasks.
SplitBegin ==
  /\ pc = "idle"
  /\ last \in {"Init", "Split"}
  /\ splits < MaxSplits
  /\ splits' = splits + 1
  /\ \E leaf \in in_use, right_leaf \in (0..(num_leaves - 1)) \ in_use :
       /\ RangeInBuffer(Store, leaf)
       /\ \E goLeft \in SUBSET SeqSet(GetIndexOnLeaf(Store, leaf)) :
            call' = SplitLocals(Store, omp_threads, leaf, right_leaf, goLeft)
  /\ pre' = Snapshot(Store)
  /\ pc' = "partition"
  /\ todo' = 0..(call'.nblock - 1)
  /\ UNCHANGED <<store_vars, config_vars, bag_vars, last, in_use, inits, init_run, one,
               region_vars, sched_vars, reset_vars, resize_vars, alloc_vars, stamp_vars, swap_vars, info_vars>>

\* One task of Threading::For runs the partition body on its block.
PartitionBlock ==
  /\ pc = "partition"
  /\ \E i \in todo :
       /\ SetStore(PartitionBody(Store, call, i))
       /\ todo' = todo \ {i}
  /\ UNCHANGED <<config_vars, bag_vars, pc, call, pre, last, in_use, inits, splits, init_run, one,
               region_vars, sched_vars, reset_vars, resize_vars, alloc_vars, stamp_vars, swap_vars, info_vars>>

\* Faulty variant of the barrier: the loop does not wait for its tasks (nowait).
JoinedNoWait == TRUE

\* Faulty variant of the barrier: it never opens.
JoinedNever == FALSE

\* The implicit barrier that ends the parallel loop of Threading::For: every
\* task has been started and has ended.
Joined == todo = {} /\ running = {}

\* Threading::For has joined and returns (OMP_THROW_EX finds no exception):
\* write positions, total left count, fork of the copy loop.
SplitMergeStart ==
  /\ pc = "partition"
  /\ Joined
  /\ ex = NoEx
  /\ finished' = <<>>
  /\ \E ub \in UBValues :
       LET s == PrefixSums(Store, call) IN
       /\ SetStore(s)
       /\ call' = [call EXCEPT !.left_cnt = LeftCnt(s, call, ub)]
  /\ pc' = "merge"
  /\ todo' = 0..(call.nblock - 1)
  /\ UNCHANGED <<config_vars, bag_vars, pre, last, in_use, inits, splits, init_run, one,
               ex, running, raised, sched_vars, reset_vars, resize_vars, alloc_vars, stamp_vars, swap_vars, info_vars>>

\* One iteration of the copy loop.
MergeBlock ==
  /\ pc = "merge"
  /\ \E i \in todo :
       /\ SetStore(MergeBody(Store, call, i))
       /\ todo' = todo \ {i}
  /\ UNCHANGED <<config_vars, bag_vars, pc, call, pre, last, in_use, inits, splits, init_run, one,
               region_vars, sched_vars, reset_vars, resize_vars, alloc_vars, stamp_vars, swap_vars, info_vars>>

\* The copy loop has joined: the leaf boundary is updated and Split returns.
SplitReturn ==
  /\ pc = "merge"
  /\ todo = {}
  /\ SetStore(UpdateLeafBoundary(Store, call))
  /\ pc' = "idle"
  /\ last' = "Split"
  /\ in_use' = in_use \cup {call.right_leaf}
  /\ UNCHANGED <<config_vars, bag_vars, todo, call, pre, inits, splits, init_run>>

SplitEnd == SplitReturn /\ UNCHANGED <<one, region_vars, sched_vars, reset_vars, resize_vars, alloc_vars, stamp_vars, swap_vars, info_vars>>

Next ==
  \/ DataPartitionInit
  \/ SetUsedDataIndices
  \/ SplitBegin
  \/ PartitionBlock
  \/ SplitMergeStart
  \/ MergeBlock
  \/ SplitEnd

Spec == Init /\ [][Next]_vars

\* ------------------------------------------- one worker against N workers
\* The store `one` is built and driven by a single worker and receives the
\* same Init and Split calls as the store above.
InitBoth ==
  /\ InitCall
  /\ UNCHANGED <<region_vars, sched_vars, reset_vars, resize_vars, alloc_vars, stamp_vars, swap_vars, info_vars>>
  /\ one' = [st |-> InitStore(one.st, used_data_indices, used_data_count, num_data),
             ok |-> TRUE]

SplitEndBoth ==
  /\ SplitReturn
  /\ UNCHANGED <<region_vars, sched_vars, reset_vars, resize_vars, alloc_vars, stamp_vars, swap_vars, info_vars>>
  /\ \E ub \in UBValues :
       one' = IF one.ok /\ RangeInBuffer(one.st, call.leaf)
              THEN [one EXCEPT !.st = RunSplit(@, 1, call.leaf, call.right_leaf,
                                               call.goLeft, ub)]
              ELSE [one EXCEPT !.ok = FALSE]

NextWorkers ==
  \/ InitBoth
  \/ SetUsedDataIndices
  \/ SplitBegin
  \/ PartitionBlock
  \/ SplitMergeStart
  \/ MergeBlock
  \/ SplitEndBoth

SpecWorkers == Init /\ [][NextWorkers]_vars

\* --------------------------------------------------------- ResetByLeafPred
\* DataPartition::ResetByLeafPred(leaf_pred, num_leaves); the caller passes a
\* leaf id below num_leaves for each of the num_data examples.
ResetByLeafPred ==
  /\ pc = "idle"
  /\ resets < MaxResets
  /\ resets' = resets + 1
  /\ \E nl \in 1..MaxLeaves : \E lp \in [0..(num_data - 1) -> 0..(nl - 1)] :
       /\ SetStore(ResetByLeafPredStore(Store, lp, nl))
       /\ num_leaves' = nl
       /\ reset_call' = [leaf_pred |-> lp, num_leaves |-> nl]
       /\ in_use' = 0..(nl - 1)
       /\ pre' = Snapshot(ResetByLeafPredStore(Store, lp, nl))
  /\ last' = "ResetByLeafPred"
  /\ call' = NoCall
  /\ UNCHANGED <<num_data, num_threads, omp_threads, bag_vars, pc, todo, inits, splits,
               init_run, one, region_vars, sched_vars, resize_vars, alloc_vars, stamp_vars, swap_vars, info_vars>>

\* ResetByLeafPred writes every cell of indices and every entry of leaf_begin
\* and leaf_count, so this specification interleaves it with Init and
\* SetUsedDataIndices only.
NextReset ==
  \/ DataPartitionInit
  \/ SetUsedDataIndices
  \/ ResetByLeafPred

SpecReset == Init /\ [][NextReset]_vars

\* --------------------------------------------- reuse of the store across trees
\* DataPartition::ResetLeaves(num_leaves); the caller passes at least one leaf.
ResetLeaves ==
  /\ pc = "idle"
  /\ resizes < MaxResizes
  /\ resizes' = resizes + 1
  /\ \E k \in 1..MaxLeaves :
       /\ num_leaves' = k
       /\ SetStore(ResetLeavesStore(Store, k))
       /\ resize_call' = [resize_call EXCEPT !.num_leaves = k]
  /\ last' = "ResetLeaves"
  /\ UNCHANGED <<num_data, num_threads, omp_threads, bag_vars, call_vars, in_use, inits, splits,
               init_run, one, region_vars, sched_vars, reset_vars, alloc_vars, stamp_vars, swap_vars, info_vars>>

\* DataPartition::ResetNumData(num_data); the caller passes at least one row.
ResetNumData ==
  /\ pc = "idle"
  /\ resizes < MaxResizes
  /\ resizes' = resizes + 1
  /\ \E n \in 1..MaxData :
       /\ num_data' = n
       /\ SetStore(ResetNumDataStore(Store, n))
       /\ resize_call' = [resize_call EXCEPT !.num_data = n]
  /\ last' = "ResetNumData"
  /\ UNCHANGED <<num_leaves, num_threads, omp_threads, bag_vars, call_vars, in_use, inits, splits,
               init_run, one, region_vars, sched_vars, reset_vars, alloc_vars, stamp_vars, swap_vars, info_vars>>

\* The bagging subset, if one is set, names rows of the store as it is sized
\* now (the caller sets a new subset after ResetNumData before it calls Init).
BagFits ==
  \/ used_data_indices = Null
  \/ /\ used_data_count <= num_data
     /\ SeqSet(used_data_indices) \subseteq 0..(num_data - 1)

\* DataPartition::Init() on a store that may have been resized.
InitSized == BagFits /\ DataPartitionInit

\* The caller owns the buffer that SetUsedDataIndices has handed over, and
\* writes another list of distinct row ids into it; the store is not called.
CallerWritesBuffer ==
  /\ pc = "idle"
  /\ used_data_indices # Null
  /\ \E buf \in DistinctSeqs(0..(num_data - 1), Len(used_data_indices)) \ {used_data_indices} :
       used_data_indices' = buf
  /\ UNCHANGED <<store_vars, config_vars, used_data_count, call_vars, last, in_use, inits, splits,
               init_run, one, region_vars, sched_vars, reset_vars, resize_vars, alloc_vars,
               stamp_vars, swap_vars, info_vars>>

\* ResetLeaves, SetUsedDataIndices and the caller's writes to its buffer,
\* between Init calls.
NextFrame ==
  \/ InitSized
  \/ SetUsedDataIndices
  \/ CallerWritesBuffer
  \/ ResetLeaves

SpecFrame == Init /\ [][NextFrame]_vars

\* The store is resized between trees; no bagging subset is set.
NextResize ==
  \/ InitSized
  \/ ResetLeaves
  \/ ResetNumData
  \/ SplitBegin
  \/ PartitionBlock
  \/ SplitMergeStart
  \/ MergeBlock
  \/ SplitEnd

SpecResize == Init /\ [][NextResize]_vars

\* ------------------------------------------ Split with an oracle that may fail
\* Split, lines 125-130 with an oracle that raises: Dataset::Split has handled
\* the first k ids of the slice of task i when it raises, so their ids are in
\* the scratch buffers; lines 131-133 are not reached.
PartitionBodyThrows(s, c, i, k) ==
  LET cur_start == ForBlock(0, c.cnt, c.block_size, i).inner_start
      o == DatasetSplit(Slice(s.indices, c.begin + cur_start, k), c.goLeft)
  IN [s EXCEPT !.temp_left_indices = WriteSeq(o.lte, @, cur_start),
               !.temp_right_indices = WriteSeq(o.gt, @, cur_start)]

\* The number of ids in the sub-range of task i.
CurCnt(c, i) ==
  LET b == ForBlock(0, c.cnt, c.block_size, i) IN b.inner_end - b.inner_start

\* Task i of Threading::For begins: it enters the partition body.
PartitionBegin ==
  /\ pc = "partition"
  /\ \E i \in todo :
       /\ running' = running \cup {i}
       /\ todo' = todo \ {i}
  /\ UNCHANGED <<store_vars, config_vars, bag_vars, pc, call, pre, last, in_use, inits, splits,
               init_run, one, ex, finished, raised, sched_vars, reset_vars, resize_vars, alloc_vars, stamp_vars, swap_vars, info_vars>>

\* The partition body of task i runs to its end.
PartitionEnd ==
  /\ pc = "partition"
  /\ \E i \in running :
       /\ SetStore(PartitionBody(Store, call, i))
       /\ running' = running \ {i}
       /\ finished' = Append(finished, i)
  /\ UNCHANGED <<config_vars, bag_vars, pc, todo, call, pre, last, in_use, inits, splits,
               init_run, one, ex, raised, sched_vars, reset_vars, resize_vars, alloc_vars, stamp_vars, swap_vars, info_vars>>

\* The oracle raises in task i (it is called only on a non-empty sub-range);
\* OMP_LOOP_EX_END captures the exception and the task ends.
PartitionThrow ==
  /\ pc = "partition"
  /\ \E i \in running :
       /\ CurCnt(call, i) > 0
       /\ \E k \in 0..(CurCnt(call, i) - 1) :
            SetStore(PartitionBodyThrows(Store, call, i, k))
       /\ ex' = CaptureException(ex, i)
       /\ raised' = raised \cup {i}
       /\ running' = running \ {i}
       /\ finished' = Append(finished, i)
  /\ UNCHANGED <<config_vars, bag_vars, pc, todo, call, pre, last, in_use, inits, splits,
               init_run, one, sched_vars, reset_vars, resize_vars, alloc_vars, stamp_vars, swap_vars, info_vars>>

\* Threading::For has joined and OMP_THROW_EX throws the captured exception:
\* it leaves Split at line 123 and reaches the caller of Split.
SplitRethrow ==
  /\ pc = "partition"
  /\ Joined
  /\ ex # NoEx
  /\ pc' = "thrown"
  /\ UNCHANGED <<store_vars, config_vars, bag_vars, todo, call, pre, last, in_use, inits,
               splits, init_run, one, region_vars, sched_vars, reset_vars, resize_vars, alloc_vars, stamp_vars, swap_vars, info_vars>>

NextOracle ==
  \/ DataPartitionInit
  \/ SetUsedDataIndices
  \/ SplitBegin
  \/ PartitionBegin
  \/ PartitionEnd
  \/ PartitionThrow
  \/ SplitMergeStart
  \/ SplitRethrow
  \/ MergeBlock
  \/ SplitEnd

SpecOracle == Init /\ [][NextOracle]_vars

\* ------------------------------------------------- Threading::For on its own
\* One more call of inner_fun with the argument triple x.
Count(bag, x) == IF x \in DOMAIN bag THEN bag[x] ELSE 0
AddCall(bag, x) == [y \in DOMAIN bag \cup {x} |-> IF y = x THEN Count(bag, x) + 1 ELSE bag[y]]

\* A caller is about to call Threading::For(start, end, min_block_size, inner_fun)
\* under T ambient threads.
InitFor ==
  /\ \E T \in 1..MaxTeam : Constructed(1, 1, T)
  /\ NoRegion
  /\ \E start \in 0..MaxStart, cnt \in 0..MaxCount, min_block_size \in 1..MaxMinBlock :
       for_call = [NoFor EXCEPT !.start = start, !.end = start + cnt,
                                !.min_block_size = min_block_size, !.num_inner = cnt]
  /\ invoked = <<>>
  /\ bal_call = NoBalanced
  /\ worker = <<>>

partition_vars == <<store_vars, config_vars, bag_vars, call, pre, last, in_use, inits, splits,
                    init_run, one>>

\* Threading::For, lines 51-55: BlockInfo, OMP_INIT_EX, the loop forks its tasks.
ForEnter ==
  /\ pc = "idle"
  /\ for_call.ret.kind = "none"
  /\ LET bi == BlockInfo(omp_threads, for_call.end - for_call.start, for_call.min_block_size)
     IN /\ for_call' = [for_call EXCEPT !.n_block = bi.nblock, !.num_inner = bi.block_size]
        /\ todo' = 0..(bi.nblock - 1)
  /\ pc' = "For"
  /\ ex' = NoEx
  /\ UNCHANGED <<partition_vars, running, finished, raised, invoked, bal_call, worker, reset_vars, resize_vars, alloc_vars, stamp_vars, swap_vars, info_vars>>

\* Lines 57-60: task i computes its sub-range and calls inner_fun.
ForTaskBegin ==
  /\ pc = "For"
  /\ \E i \in todo :
       LET b == ForBlock(for_call.start, for_call.end, for_call.num_inner, i)
       IN /\ invoked' = AddCall(invoked, <<i, b.inner_start, b.inner_end>>)
          /\ running' = running \cup {i}
          /\ todo' = todo \ {i}
  /\ UNCHANGED <<partition_vars, pc, ex, finished, raised, for_call, bal_call, worker, reset_vars, resize_vars, alloc_vars, stamp_vars, swap_vars, info_vars>>

\* Lines 60-61: inner_fun of task i returns and the task ends.
ForTaskEnd ==
  /\ pc = "For"
  /\ \E i \in running :
       /\ running' = running \ {i}
       /\ finished' = Append(finished, i)
  /\ UNCHANGED <<partition_vars, pc, todo, ex, raised, for_call, invoked, bal_call, worker, reset_vars, resize_vars, alloc_vars, stamp_vars, swap_vars, info_vars>>

\* Lines 60-61: inner_fun of task i raises, OMP_LOOP_EX_END captures the
\* exception and the task ends.
ForTaskThrow ==
  /\ pc = "For"
  /\ \E i \in running :
       /\ ex' = CaptureException(ex, i)
       /\ raised' = raised \cup {i}
       /\ running' = running \ {i}
       /\ finished' = Append(finished, i)
  /\ UNCHANGED <<partition_vars, pc, todo, for_call, invoked, bal_call, worker, reset_vars, resize_vars, alloc_vars, stamp_vars, swap_vars, info_vars>>

\* Lines 62-64: the implicit barrier at the end of the loop, OMP_THROW_EX, return.
ForReturn ==
  /\ pc = "For"
  /\ Joined
  /\ for_call' = [for_call EXCEPT !.ret = ForResult(ex, for_call.n_block)]
  /\ pc' = "idle"
  /\ UNCHANGED <<partition_vars, todo, region_vars, invoked, bal_call, worker, reset_vars, resize_vars, alloc_vars, stamp_vars, swap_vars, info_vars>>

NextFor ==
  \/ ForEnter
  \/ ForTaskBegin
  \/ ForTaskEnd
  \/ ForTaskThrow
  \/ ForReturn

SpecFor == InitFor /\ [][NextFor]_vars

\* ----------------------------------------- Threading::BalancedFor on its own
\* A caller is about to call Threading::BalancedFor(n, size, inner_fun) under T
\* ambient threads; lines 69-74 have set up the empty groups.
InitBalanced ==
  /\ \E T \in 1..MaxTeam :
       /\ Constructed(1, 1, T)
       /\ \E n \in 0..MaxTasks : \E size \in [0..(n - 1) -> 0..MaxSize] :
            bal_call = [n |-> n, size |-> size, groups |-> Arr(T, <<>>),
                        group_sizes |-> Arr(T, 0), i |-> 0]
       /\ worker = Arr(T, [ran |-> <<>>, busy |-> FALSE])
  /\ NoRegion
  /\ for_call = NoFor
  /\ invoked = <<>>

\* Lines 75-80: one iteration of the assignment loop.
BalancedAssignNext ==
  /\ pc = "idle"
  /\ bal_call.i < bal_call.n
  /\ bal_call' = BalancedAssign(bal_call)
  /\ UNCHANGED <<partition_vars, pc, todo, region_vars, for_call, invoked, worker, reset_vars, resize_vars, alloc_vars, stamp_vars, swap_vars, info_vars>>

\* Lines 81-83: the assignment loop is over, the parallel loop forks one
\* iteration per group.
BalancedFork ==
  /\ pc = "idle"
  /\ bal_call.i = bal_call.n
  /\ pc' = "BalancedFor"
  /\ todo' = DOMAIN bal_call.groups
  /\ UNCHANGED <<partition_vars, region_vars, sched_vars, reset_vars, resize_vars, alloc_vars, stamp_vars, swap_vars, info_vars>>

\* Faulty variant of NextTask: the group is run from its end backwards.
NextTaskBackwards(b, wk, w) == b.groups[w][Len(b.groups[w]) - Len(wk[w].ran)]

\* The task that iteration w of the parallel loop runs next: the one after
\* those it has run, in groups[w].
NextTask(b, wk, w) == b.groups[w][Len(wk[w].ran) + 1]

\* Lines 85-86: iteration w calls inner_fun on the next task of its group.
BalancedTaskBegin ==
  /\ pc = "BalancedFor"
  /\ \E w \in todo :
       /\ ~worker[w].busy
       /\ Len(worker[w].ran) < Len(bal_call.groups[w])
       /\ worker' = [worker EXCEPT ![w] = [ran |-> Append(@.ran, NextTask(bal_call, worker, w)),
                                            busy |-> TRUE]]
  /\ UNCHANGED <<partition_vars, pc, todo, region_vars, for_call, invoked, bal_call, reset_vars, resize_vars, alloc_vars, stamp_vars, swap_vars, info_vars>>

\* Line 86: inner_fun returns in iteration w.
BalancedTaskEnd ==
  /\ pc = "BalancedFor"
  /\ \E w \in todo :
       /\ worker[w].busy
       /\ worker' = [worker EXCEPT ![w].busy = FALSE]
  /\ UNCHANGED <<partition_vars, pc, todo, region_vars, for_call, invoked, bal_call, reset_vars, resize_vars, alloc_vars, stamp_vars, swap_vars, info_vars>>

\* Lines 87-88: iteration w has run all the tasks of its group and ends.
BalancedWorkerEnd ==
  /\ pc = "BalancedFor"
  /\ \E w \in todo :
       /\ ~worker[w].busy
       /\ Len(worker[w].ran) >= Len(bal_call.groups[w])
       /\ todo' = todo \ {w}
  /\ UNCHANGED <<partition_vars, pc, region_vars, sched_vars, reset_vars, resize_vars, alloc_vars, stamp_vars, swap_vars, info_vars>>

\* Lines 89-91: the implicit barrier of the parallel loop, OMP_THROW_EX, return.
BalancedReturn ==
  /\ pc = "BalancedFor"
  /\ Joined
  /\ pc' = "returned"
  /\ UNCHANGED <<partition_vars, todo, region_vars, sched_vars, reset_vars, resize_vars, alloc_vars, stamp_vars, swap_vars, info_vars>>

NextBalanced ==
  \/ BalancedAssignNext
  \/ BalancedFork
  \/ BalancedTaskBegin
  \/ BalancedTaskEnd
  \/ BalancedWorkerEnd
  \/ BalancedReturn

SpecBalanced == InitBalanced /\ [][NextBalanced]_vars

\* ----------------------------------------- Split with blocks that get no ids
\* A store of WideData rows built under WideThreads threads.
InitWide ==
  /\ \E nl \in 2..MaxLeaves : Constructed(WideData, nl, WideThreads)
  /\ NoRegion
  /\ NoSchedCall

\* One task of Threading::For runs the partition body on its block; the cells
\* the oracle writes are marked with the number of the Split call.
PartitionStamped ==
  /\ pc = "partition"
  /\ \E i \in todo :
       /\ SetStore(PartitionBody(Store, call, i))
       /\ stamp' = StampBody(stamp, Store, call, i, splits)
       /\ todo' = todo \ {i}
  /\ UNCHANGED <<config_vars, bag_vars, pc, call, pre, last, in_use, inits, splits, init_run, one,
               region_vars, sched_vars, reset_vars, resize_vars, alloc_vars, swap_vars, info_vars>>

NextWide ==
  \/ DataPartitionInit
  \/ SplitBegin
  \/ PartitionStamped
  \/ SplitMergeStart
  \/ MergeBlock
  \/ SplitEnd

SpecWide == InitWide /\ [][NextWide]_vars

\* ------------------------------------------------- fair scheduling of the tasks
\* A store on which Init and Split are called, or a caller that is about to
\* call Threading::For.
InitLive == Init \/ InitFor

\* Init, Split with tasks that begin and end in separate steps and whose
\* oracle returns, and Threading::For with a body that returns.
NextLive ==
  \/ DataPartitionInit
  \/ SplitBegin
  \/ PartitionBegin
  \/ PartitionEnd
  \/ SplitMergeStart
  \/ MergeBlock
  \/ SplitEnd
  \/ ForEnter
  \/ ForTaskBegin
  \/ ForTaskEnd
  \/ ForReturn

\* A step of a thread of the team inside a call: a task begins or ends, or
\* the master thread passes the barrier and goes on to the return.
TeamStep ==
  \/ PartitionBegin
  \/ PartitionEnd
  \/ SplitMergeStart
  \/ MergeBlock
  \/ SplitEnd
  \/ ForTaskBegin
  \/ ForTaskEnd
  \/ ForReturn

\* The OpenMP runtime keeps the team running: while a thread has a step to
\* take inside a call, one is taken.  The caller is free never to call again.
SpecLive == InitLive /\ [][NextLive]_vars /\ WF_vars(TeamStep)

\* ------------------------------------------ a thread count that changes later
\* The application changes the ambient thread count (omp_set_num_threads)
\* between two calls on the store.
SetNumThreads ==
  /\ pc = "idle"
  /\ \E nt \in (1..MaxTeam) \ {omp_threads} : omp_threads' = nt
  /\ UNCHANGED <<store_vars, num_data, num_leaves, num_threads, bag_vars, call_vars, last, in_use,
               inits, splits, init_run, one, region_vars, sched_vars, reset_vars, resize_vars,
               alloc_vars, stamp_vars, swap_vars, info_vars>>

\* One task of Threading::For runs the partition body on its block, whose
\* index lies inside the per-block arrays.
PartitionInBounds ==
  /\ pc = "partition"
  /\ \E i \in todo :
       /\ i \in DOMAIN left_cnts_buf
       /\ SetStore(PartitionBody(Store, call, i))
       /\ todo' = todo \ {i}
  /\ UNCHANGED <<config_vars, bag_vars, pc, call, pre, last, in_use, inits, splits, init_run, one,
               region_vars, sched_vars, reset_vars, resize_vars, alloc_vars, stamp_vars, swap_vars, info_vars>>

\* One task of Threading::For runs the partition body on a block whose index
\* lies outside the per-block arrays: lines 129-130 or 137-139 write beyond
\* the end of the vectors, and what the program does from there on is
\* undefined.
PartitionOutOfBounds ==
  /\ pc = "partition"
  /\ \E i \in todo :
       /\ i \notin DOMAIN left_cnts_buf
       /\ todo' = todo \ {i}
  /\ pc' = "undefined"
  /\ UNCHANGED <<store_vars, config_vars, bag_vars, call, pre, last, in_use, inits, splits,
               init_run, one, region_vars, sched_vars, reset_vars, resize_vars, alloc_vars,
               stamp_vars, swap_vars, info_vars>>

NextThreads ==
  \/ SetNumThreads
  \/ DataPartitionInit
  \/ SplitBegin
  \/ PartitionInBounds
  \/ PartitionOutOfBounds
  \/ SplitMergeStart
  \/ MergeBlock
  \/ SplitEnd

SpecThreads == Init /\ [][NextThreads]_vars

\* ------------------------------------------------ three Splits in a row
\* A store of ChainData rows and ChainLeaves leaves.
InitChain ==
  /\ \E nt \in 1..MaxThreads : Constructed(ChainData, ChainLeaves, nt)
  /\ NoRegion
  /\ NoSchedCall

\* Split: entry, as SplitBegin, for up to ChainSplits calls.
SplitBeginChain ==
  /\ pc = "idle"
  /\ last \in {"Init", "Split"}
  /\ splits < ChainSplits
  /\ splits' = splits + 1
  /\ \E leaf \in in_use, right_leaf \in (0..(num_leaves - 1)) \ in_use :
       /\ RangeInBuffer(Store, leaf)
       /\ \E goLeft \in SUBSET SeqSet(GetIndexOnLeaf(Store, leaf)) :
            call' = SplitLocals(Store, omp_threads, leaf, right_leaf, goLeft)
  /\ pre' = Snapshot(Store)
  /\ pc' = "partition"
  /\ todo' = 0..(call'.nblock - 1)
  /\ UNCHANGED <<store_vars, config_vars, bag_vars, last, in_use, inits, init_run, one,
               region_vars, sched_vars, reset_vars, resize_vars, alloc_vars, stamp_vars, swap_vars, info_vars>>

NextChain ==
  \/ DataPartitionInit
  \/ SplitBeginChain
  \/ PartitionBlock
  \/ SplitMergeStart
  \/ MergeBlock
  \/ SplitEnd

SpecChain == InitChain /\ [][NextChain]_vars

\* --------------------------------------------- two Splits in either order
\* A store of ChainLeaves leaves.
InitCommute ==
  /\ \E nd \in 1..MaxData, nt \in 1..MaxThreads : Constructed(nd, ChainLeaves, nt)
  /\ NoRegion
  /\ NoSchedCall

\* Split: entry, as SplitBegin, for up to ChainSplits calls.  When the call
\* follows a Split on another leaf, the two calls are also made the other way
\* round (this call first, then the earlier one) on a copy of the store as it
\* was before the earlier call, each with the routing it has here.
SplitBeginSwap ==
  /\ pc = "idle"
  /\ last \in {"Init", "Split"}
  /\ splits < ChainSplits
  /\ splits' = splits + 1
  /\ \E leaf \in in_use, right_leaf \in (0..(num_leaves - 1)) \ in_use :
       /\ RangeInBuffer(Store, leaf)
       /\ \E goLeft \in SUBSET SeqSet(GetIndexOnLeaf(Store, leaf)) :
            call' = SplitLocals(Store, omp_threads, leaf, right_leaf, goLeft)
  /\ pre' = Snapshot(Store)
  /\ pc' = "partition"
  /\ todo' = 0..(call'.nblock - 1)
  /\ IF last = "Split" /\ call'.leaf \notin {call.leaf, call.right_leaf}
     THEN \E ub1, ub2 \in UBValues :
            LET s1 == RunSplit(swap.base, omp_threads, call'.leaf, call'.right_leaf,
                               call'.goLeft, ub1)
                s2 == RunSplit(s1, omp_threads, call.leaf, call.right_leaf, call.goLeft, ub2)
            IN swap' = [base |-> Store, first |-> call, st |-> Snapshot(s2), done |-> TRUE]
     ELSE swap' = [base |-> Store, first |-> call, st |-> Snapshot(Store), done |-> FALSE]
  /\ UNCHANGED <<store_vars, config_vars, bag_vars, last, in_use, inits, init_run, one,
               region_vars, sched_vars, reset_vars, resize_vars, alloc_vars, stamp_vars, info_vars>>

NextCommute ==
  \/ DataPartitionInit
  \/ SplitBeginSwap
  \/ PartitionBlock
  \/ SplitMergeStart
  \/ MergeBlock
  \/ SplitEnd

SpecCommute == InitCommute /\ [][NextCommute]_vars

\* ------------------------------------- a bagging subset kept across a resize
\* DataPartition::Init() with no bagging subset, or with one of no more ids
\* than indices has cells.
InitInBuffer ==
  /\ used_data_indices = Null \/ used_data_count <= num_data
  /\ DataPartitionInit

\* DataPartition::Init() with a bagging subset of more ids than indices has
\* cells: lines 63-64 and 74 run as always, and the memcpy of line 75 fills
\* indices and goes on writing beyond its end; what the program does from
\* there on is undefined.
InitOverflows ==
  /\ pc = "idle"
  /\ used_data_indices # Null
  /\ used_data_count > num_data
  /\ SetStore(InitStore(Store, used_data_indices, used_data_count, num_data))
  /\ last' = "Init"
  /\ pc' = "undefined"
  /\ UNCHANGED <<config_vars, bag_vars, todo, call, pre, in_use, inits, splits, init_run, one,
               region_vars, sched_vars, reset_vars, resize_vars, alloc_vars, stamp_vars, swap_vars, info_vars>>

\* The store is resized and Init is called with the bagging subset as it was
\* last set.
NextBag ==
  \/ InitInBuffer
  \/ InitOverflows
  \/ SetUsedDataIndices
  \/ ResetNumData

SpecBag == Init /\ [][NextBag]_vars

\* ------------------------------------- Threading::BlockInfo over all of INDEX_T
\* A caller is about to call Threading::BlockInfo under T ambient threads.
InitInfo ==
  /\ \E T \in 1..MaxTeam : Constructed(1, 1, T)
  /\ NoRegion
  /\ NoSchedCall

\* BlockInfo(cnt, min_cnt_per_block, &nblock, &block_size) is called with a
\* count and a minimum block size of INDEX_T and returns.
BlockInfoCall ==
  /\ pc = "idle"
  /\ info.at = "none"
  /\ \E cnt \in 0..IndexMax, min_cnt_per_block \in 1..IndexMax, mode \in {"wrap", "wide"} :
       info' = BlockInfoIndexT(omp_threads, cnt, min_cnt_per_block, mode)
  /\ UNCHANGED <<partition_vars, pc, todo, region_vars, sched_vars, reset_vars, resize_vars,
               alloc_vars, stamp_vars, swap_vars>>

NextInfo == BlockInfoCall

SpecInfo == InitInfo /\ [][NextInfo]_vars

\* ---------------------------------------- AlignmentAllocator::allocate on its own
InitAlloc ==
  /\ Constructed(1, 1, 1)
  /\ NoRegion
  /\ NoSchedCall

\* allocate(n) is called on an allocator for elements of size_of bytes and runs
\* up to its return, its throw of std::length_error or its call of _mm_malloc.
AllocateEnter ==
  /\ pc = "idle"
  /\ alloc.at = "none"
  /\ \E n \in 0..(SizeMod - 1), size_of \in SizeOfs :
       LET c == AllocateCheck(n, size_of)
       IN alloc' = [alloc EXCEPT !.n = n, !.size_of = size_of, !.at = c.at, !.ret = c.ret,
                                 !.bytes = c.bytes,
                                 !.mallocs = IF c.at = "malloc" THEN 1 ELSE 0]
  /\ UNCHANGED <<partition_vars, pc, todo, region_vars, sched_vars, reset_vars, resize_vars,
               stamp_vars, swap_vars, info_vars>>

\* _mm_malloc returns a null pointer or a block; allocate throws std::bad_alloc
\* or returns the block.
AllocateMallocReturns ==
  /\ alloc.at = "malloc"
  /\ \E pv \in {"NULL", "block"} :
       alloc' = [alloc EXCEPT !.pv = pv, !.ret = AllocateResult(pv), !.at = "done"]
  /\ UNCHANGED <<partition_vars, pc, todo, region_vars, sched_vars, reset_vars, resize_vars,
               stamp_vars, swap_vars, info_vars>>

NextAlloc ==
  \/ AllocateEnter
  \/ AllocateMallocReturns

SpecAlloc == InitAlloc /\ [][NextAlloc]_vars

\* ------------------------------------------------------------------ claims
\* Init or Split has returned and nothing was called since.
Returned == pc = "idle" /\ last \in {"Init", "Split"}

\* A Split call has just returned.
SplitReturned == pc = "idle" /\ last = "Split"

Leaves == 0..(num_leaves - 1)

\* total_active_count, and the active id set.
TotalActive == IF used_data_indices = Null THEN num_data ELSE used_data_count
ActiveIds ==
  IF used_data_indices = Null THEN 0..(num_data - 1)
  ELSE SeqSet(SubSeq(used_data_indices, 1, used_data_count))

\* The positions [leaf_begin[l], leaf_begin[l] + leaf_count[l]).
LeafRange(l) == leaf_begin[l]..(leaf_begin[l] + leaf_count[l] - 1)

\* The parent leaf's id sequence before the last Split call, and what the
\* oracle routes left and right of it.
ParentIds ==
  IF call.cnt > 0 THEN Slice(pre.indices, call.begin, call.cnt) ELSE <<>>
LeftIds == SelectSeq(ParentIds, LAMBDA x : x \in call.goLeft)
RightIds == SelectSeq(ParentIds, LAMBDA x : x \notin call.goLeft)

\* a occurs before b in the sequence s.
Before(s, a, b) == \E i, j \in DOMAIN s : i < j /\ s[i] = a /\ s[j] = b

\* The parent order is kept among the ids of the sequence out.
KeepsParentOrder(out) ==
  \A a, b \in SeqSet(out) :
    (a # b /\ Before(ParentIds, a, b)) => (Before(out, a, b) /\ ~Before(out, b, a))

\* C1: after every Init and every Split (all-left, all-right and empty parent
\* leaves included) the leaf counts add up to num_data, or to used_data_count
\* when a bagging subset is set.
C1_SumLeafCount == Returned => SumTo(leaf_count, num_leaves) = TotalActive

\* C1 witness: a Split of an empty parent leaf has returned, under bagging.
C1_Witness ==
  /\ SplitReturned
  /\ call.cnt = 0
  /\ call.left_cnt # 0
  /\ used_data_indices # Null
  /\ used_data_count > 0

\* C2: after every Init and every Split each active id occurs exactly once in
\* indices[0, total_active_count) and lies in the range of exactly one leaf.
C2_Permutation ==
  Returned =>
    \A id \in ActiveIds :
      /\ Cardinality({p \in 0..(TotalActive - 1) : indices[p] = id}) = 1
      /\ Cardinality({l \in Leaves :
                        \E p \in LeafRange(l) : p \in DOMAIN indices /\ indices[p] = id}) = 1

\* C3: after every Init and every Split the non-empty leaf ranges are pairwise
\* disjoint and their union is exactly [0, total_active_count).
C3_Tiling ==
  Returned =>
    /\ \A l1, l2 \in Leaves : l1 # l2 => LeafRange(l1) \cap LeafRange(l2) = {}
    /\ UNION {LeafRange(l) : l \in Leaves} = 0..(TotalActive - 1)

\* C4: Split is stable: two ids that end up in the same output range keep the
\* order they had in the parent leaf's range, for every number of blocks and
\* every execution order of the blocks.
C4_Stable ==
  SplitReturned =>
    /\ KeepsParentOrder(GetIndexOnLeaf(Store, call.leaf))
    /\ KeepsParentOrder(GetIndexOnLeaf(Store, call.right_leaf))

\* C4 witness: a Split over two blocks has returned whose left output takes
\* ids of both blocks.
C4_Witness ==
  /\ SplitReturned
  /\ call.nblock = 2
  /\ left_cnts_buf[0] >= 1
  /\ left_cnts_buf[1] >= 1
  /\ Len(GetIndexOnLeaf(Store, call.leaf)) >= 2

\* C5: after Split, leaf_count[leaf] is the number of ids routed left,
\* leaf_begin[right_leaf] is begin plus that number, leaf_count[right_leaf] is
\* cnt minus that number, and leaf_begin[leaf] is still begin.
C5_Bookkeeping ==
  SplitReturned =>
    /\ leaf_count[call.leaf] = Len(LeftIds)
    /\ leaf_begin[call.right_leaf] = pre.leaf_begin[call.leaf] + Len(LeftIds)
    /\ leaf_count[call.right_leaf] = pre.leaf_count[call.leaf] - Len(LeftIds)
    /\ leaf_begin[call.leaf] = pre.leaf_begin[call.leaf]

\* C6: after Split, GetIndexOnLeaf(leaf) is exactly the ids of the parent range
\* routed left and GetIndexOnLeaf(right_leaf) exactly those routed right, each
\* in its original relative order.
C6_LeafContents ==
  SplitReturned =>
    /\ leaf_count[call.leaf] = Len(LeftIds)
    /\ leaf_count[call.right_leaf] = Len(RightIds)
    /\ GetIndexOnLeaf(Store, call.leaf) = LeftIds
    /\ GetIndexOnLeaf(Store, call.right_leaf) = RightIds

\* C7: Init, in any reachable state, empties every leaf but leaf 0 and gives
\* leaf 0 the whole active set: the identity on 0..num_data-1, or the bagging
\* subset in its given order.
C7_InitResets ==
  (pc = "idle" /\ last = "Init") =>
    /\ \A l \in Leaves : leaf_begin[l] = 0
    /\ \A l \in Leaves \ {0} : leaf_count[l] = 0
    /\ IF used_data_indices = Null
       THEN /\ leaf_count[0] = num_data
            /\ \A i \in 0..(num_data - 1) : indices[i] = i
       ELSE /\ leaf_count[0] = used_data_count
            /\ Slice(indices, 0, used_data_count) = SubSeq(used_data_indices, 1, used_data_count)

\* C7 witness: Init has returned after an earlier Split, with a bagging subset
\* that is not in increasing order.
C7_Witness ==
  /\ pc = "idle"
  /\ last = "Init"
  /\ splits >= 1
  /\ used_data_indices # Null
  /\ used_data_count = 2
  /\ used_data_indices[1] > used_data_indices[2]

\* C8: with a bagging subset S, after Init and after every later Split every
\* leaf's range holds only ids of S and the leaf counts add up to |S|.
C8_BaggingContainment ==
  (Returned /\ used_data_indices # Null) =>
    /\ \A l \in Leaves : \A p \in LeafRange(l) :
         p \in DOMAIN indices /\ indices[p] \in ActiveIds
    /\ SumTo(leaf_count, num_leaves) = Cardinality(ActiveIds)

\* C9: Init is idempotent: a second Init right after an Init leaves indices,
\* leaf_begin and leaf_count as the first one set them.
C9_InitIdempotent ==
  [][(last = "Init" /\ DataPartitionInit) =>
       (indices' = indices /\ leaf_begin' = leaf_begin /\ leaf_count' = leaf_count)]_vars

\* C9 witness: two Init calls in a row have returned, after an earlier Split
\* and with a bagging subset set.
C9_Witness ==
  /\ pc = "idle"
  /\ last = "Init"
  /\ init_run = 2
  /\ splits >= 1
  /\ used_data_indices # Null
  /\ used_data_count >= 1

\* C10: the same Init and Split calls under one worker and under N workers give
\* every leaf the same set of ids.
C10_SameSets ==
  (Returned /\ one.ok) =>
    \A l \in Leaves : SeqSet(GetIndexOnLeaf(Store, l)) = SeqSet(GetIndexOnLeaf(one.st, l))

\* ------------------------------------------------- claims on the scheduler
\* a / b rounded up: the least q with q * b >= a (a >= 0, b >= 1).
CeilDiv(a, b) == CHOOSE q \in 0..a : q * b >= a /\ (q = 0 \/ (q - 1) * b < a)

\* The least multiple of the alignment that is not below x (x >= 0).
AlignUp(x) ==
  CHOOSE m \in x..(x + kAlignedSize) : m % kAlignedSize = 0 /\ m - kAlignedSize < x

\* The count handed to BlockInfo by the Threading::For call.
ForCount == for_call.end - for_call.start

\* BlockInfo has been applied by the Threading::For call.
ForEntered == pc = "For" \/ for_call.ret.kind # "none"

\* C11: for count >= 0, min_count_per_block >= 1 and T >= 1 ambient threads,
\* BlockInfo gives num_blocks = min(T, ceil(count / min_count_per_block)); the
\* block size is ceil(count / num_blocks) rounded up to a multiple of the
\* alignment when num_blocks > 1 and count otherwise; num_blocks * block_size
\* >= count and num_blocks <= T.
C11_BlockInfo ==
  ForEntered =>
    LET nb == for_call.n_block
        bs == for_call.num_inner
        want == CeilDiv(ForCount, for_call.min_block_size)
    IN /\ nb = (IF omp_threads <= want THEN omp_threads ELSE want)
       /\ nb > 1 => bs = AlignUp(CeilDiv(ForCount, nb))
       /\ nb <= 1 => bs = ForCount
       /\ nb * bs >= ForCount
       /\ nb <= omp_threads

\* C11 witness: BlockInfo gave fewer blocks than threads and a block size that
\* the alignment raised.
C11_Witness ==
  /\ ForEntered
  /\ for_call.n_block = 2
  /\ omp_threads = 3
  /\ for_call.num_inner > CeilDiv(ForCount, 2)

\* What BlockInfo gives for the arguments of the Threading::For call.
ForInfo == BlockInfo(omp_threads, ForCount, for_call.min_block_size)

\* The Threading::For call has returned or thrown.
ForReturned == pc = "idle" /\ for_call.ret.kind # "none"

\* The argument triple the claim gives for block i.
BlockArgs(i) ==
  LET block_end == for_call.start + (i + 1) * ForInfo.block_size
  IN <<i, for_call.start + i * ForInfo.block_size,
       IF for_call.end <= block_end THEN for_call.end ELSE block_end>>

\* C12: Threading::For calls inner_fun exactly once for each block index i in
\* 0..num_blocks-1 and for no other, with the arguments (i, start + i*block_size,
\* min(end, start + (i+1)*block_size)), where (num_blocks, block_size) is
\* BlockInfo(end - start, min_block_size), and returns that num_blocks.
C12_ForInvokes ==
  ForReturned =>
    /\ DOMAIN invoked = {BlockArgs(i) : i \in 0..(ForInfo.nblock - 1)}
    /\ \A x \in DOMAIN invoked : invoked[x] = 1
    /\ raised = {} =>
         for_call.ret = [kind |-> "return", val |-> ForInfo.nblock]

\* C12 witness: a call with start > 0 has returned 3 after three tasks, the
\* last of them with a sub-range cut off at end.
C12_Witness ==
  /\ ForReturned
  /\ for_call.ret = [kind |-> "return", val |-> 3]
  /\ for_call.start = 1
  /\ for_call.start + 3 * for_call.num_inner > for_call.end
  /\ Cardinality(DOMAIN invoked) = 3

\* The failing task that ended first: its exception is the first one captured.
FirstFailed ==
  LET ks == {k \in 1..Len(finished) : finished[k] \in raised}
  IN finished[CHOOSE k \in ks : \A j \in ks : k <= j]

\* C14: when inner_fun fails in one or more tasks of Threading::For, every
\* block index is still invoked and every task runs to its end; after that the
\* failure captured first, and only that one, is thrown to the caller in place
\* of the return of num_blocks; a call with a failed task never returns normally.
C14_FailureRethrown ==
  ForReturned =>
    /\ Len(finished) = for_call.n_block
    /\ SeqSet(finished) = 0..(for_call.n_block - 1)
    /\ {x[1] : x \in DOMAIN invoked} = 0..(for_call.n_block - 1)
    /\ IF raised = {}
       THEN for_call.ret = [kind |-> "return", val |-> for_call.n_block]
       ELSE for_call.ret = [kind |-> "throw", val |-> FirstFailed]

\* C14 witness: two tasks failed, the exception thrown is not that of the
\* lowest failing index, and a task without failure ended after the capture.
C14_Witness ==
  /\ ForReturned
  /\ for_call.ret.kind = "throw"
  /\ Cardinality(raised) = 2
  /\ \E i \in raised : i < for_call.ret.val
  /\ finished[Len(finished)] \notin raised

\* Some task of the partition region of the Split call has not ended yet.
TaskPending == pc = "partition" /\ (todo # {} \/ running # {})

\* C13: join barrier: while any task of Threading::For has not ended, the call
\* neither returns nor rethrows to Split, so that no copy of the merge phase
\* and no update of leaf_begin or leaf_count happens before the last partition
\* task has ended, in every interleaving.
C13_JoinBarrier ==
  [][TaskPending =>
       (pc' = "partition" /\ indices' = indices /\ leaf_begin' = leaf_begin
          /\ leaf_count' = leaf_count)]_vars

\* C13 witness: after a partition phase of two tasks the merge phase has
\* copied a block into indices.
C13_Witness ==
  /\ pc = "merge"
  /\ call.nblock = 2
  /\ todo # {0, 1}
  /\ indices # pre.indices

\* C20: Split fails atomically: when the oracle raises inside a block, all
\* blocks of the call run to their end, the failure captured first is raised to
\* the caller of Split, no merge or boundary update takes place, and leaf_begin,
\* leaf_count and indices are as they were before the call.
C20_FailureAtomic ==
  /\ raised # {} => pc \in {"partition", "thrown"}
  /\ pc = "thrown" =>
       /\ Len(finished) = call.nblock
       /\ SeqSet(finished) = 0..(call.nblock - 1)
       /\ ex = FirstFailed
       /\ leaf_begin = pre.leaf_begin
       /\ leaf_count = pre.leaf_count
       /\ indices = pre.indices

\* C20 witness: a Split over two blocks has thrown; the oracle raised in the
\* block that ended first, the other block ran to its end and routed ids left.
C20_Witness ==
  /\ pc = "thrown"
  /\ call.nblock = 2
  /\ Len(finished) = 2
  /\ raised = {finished[1]}
  /\ left_cnts_buf[finished[2]] >= 1
  /\ splits = 2

\* The blocks of the Split call in flight.
Blocks == 0..(call.nblock - 1)

\* Partition phase: the cells of temp_left_indices and of temp_right_indices
\* that block i hands to the oracle as its output buffers (lines 129-132).
PartitionCells(i) ==
  LET b == ForBlock(0, call.cnt, call.block_size, i)
  IN IF b.inner_end - b.inner_start <= 0 THEN {} ELSE b.inner_start..(b.inner_end - 1)

\* Merge phase: the cells of indices that iteration i of the copy loop writes
\* with its left and with its right copy (lines 155-158).
LeftDest(i) ==
  (call.begin + left_write_pos_buf[i])..
    (call.begin + left_write_pos_buf[i] + left_cnts_buf[i] - 1)
RightDest(i) ==
  (call.begin + call.left_cnt + right_write_pos_buf[i])..
    (call.begin + call.left_cnt + right_write_pos_buf[i] + right_cnts_buf[i] - 1)

\* C19: during a Split call no two blocks write overlapping destinations: a
\* partition task changes scratch cells of its own sub-range only and the
\* sub-ranges of different blocks are disjoint; an iteration of the copy loop
\* changes cells of its own left and right destination only, and these are
\* disjoint from each other and from the destinations of every other block; in
\* every interleaving.
C19_DisjointWrites ==
  [][/\ pc = "partition" =>
          /\ \A i, j \in Blocks : i # j => PartitionCells(i) \cap PartitionCells(j) = {}
          /\ \A i \in running \ running' :
               \A p \in DOMAIN temp_left_indices :
                 (temp_left_indices'[p] # temp_left_indices[p]
                    \/ temp_right_indices'[p] # temp_right_indices[p])
                   => p \in PartitionCells(i)
     /\ pc = "merge" =>
          /\ \A i \in Blocks : LeftDest(i) \cap RightDest(i) = {}
          /\ \A i, j \in Blocks :
               i # j => (LeftDest(i) \cup RightDest(i)) \cap (LeftDest(j) \cup RightDest(j)) = {}
          /\ \A i \in todo \ todo' :
               \A p \in DOMAIN indices :
                 indices'[p] # indices[p] => p \in LeftDest(i) \cup RightDest(i)
    ]_vars

\* C19 witness: the copy loop of a Split over two blocks has run; block 0 had
\* ids for both sides and block 1 had ids for the left side.
C19_Witness ==
  /\ pc = "merge"
  /\ todo = {}
  /\ call.nblock = 2
  /\ left_cnts_buf[0] >= 1
  /\ right_cnts_buf[0] >= 1
  /\ left_cnts_buf[1] >= 1

\* The tasks, the threads and the groups of the BalancedFor call.
Tasks == 0..(bal_call.n - 1)
Team == DOMAIN bal_call.groups
GroupSet(w) == SeqSet(bal_call.groups[w])

RECURSIVE SizeSum(_)
\* The sizes of the tasks of S added up.
SizeSum(S) ==
  IF S = {} THEN 0
  ELSE LET t == CHOOSE x \in S : TRUE IN bal_call.size[t] + SizeSum(S \ {t})

\* The running total of thread w when task t is assigned: the sizes of the
\* tasks below t that are in its group.
TotalBefore(w, t) == SizeSum({u \in GroupSet(w) : u < t})

\* The sequence s is strictly increasing.
Increasing(s) == \A j, k \in DOMAIN s : j < k => s[j] < s[k]

\* C15: BalancedFor assigns the tasks in increasing task id order, each to the
\* thread whose running total is smallest at that moment, the lowest such
\* thread on ties; the assignment is thereby fixed by the sizes and the number
\* of threads alone.
C15_GreedyAssignment ==
  /\ \A w \in Team : Increasing(bal_call.groups[w]) /\ GroupSet(w) \subseteq 0..(bal_call.i - 1)
  /\ \A t \in 0..(bal_call.i - 1) :
       \E w \in Team :
         /\ t \in GroupSet(w)
         /\ \A v \in Team \ {w} :
              /\ t \notin GroupSet(v)
              /\ \/ TotalBefore(w, t) < TotalBefore(v, t)
                 \/ TotalBefore(w, t) = TotalBefore(v, t) /\ w < v

\* C15 witness: three tasks are assigned to two threads; the sizes send the
\* last two to thread 1.
C15_Witness ==
  /\ bal_call.n = 3
  /\ bal_call.i = 3
  /\ Team = {0, 1}
  /\ bal_call.groups[0] = <<0>>
  /\ bal_call.groups[1] = <<1, 2>>

\* How often task t has been started, over all threads.
TimesRun(t) ==
  Cardinality({<<w, k>> \in Team \X (1..bal_call.n) :
                 k <= Len(worker[w].ran) /\ worker[w].ran[k] = t})

\* C16: with a body that does not fail, BalancedFor runs every task id of
\* 0..num_tasks-1 exactly once; a thread runs the tasks of its group one after
\* another in the order of their assignment (increasing task id), at most one
\* at a time, while different threads interleave; the call returns only after
\* all threads have ended.
C16_BalancedRuns ==
  /\ \A w \in Team :
       /\ Len(worker[w].ran) <= Len(bal_call.groups[w])
       /\ worker[w].ran = SubSeq(bal_call.groups[w], 1, Len(worker[w].ran))
       /\ Increasing(worker[w].ran)
  /\ \A t \in Tasks : TimesRun(t) <= 1
  /\ pc = "returned" =>
       /\ \A w \in Team : ~worker[w].busy
       /\ \A t \in Tasks : TimesRun(t) = 1

\* C16 witness: the call has returned after one thread ran two tasks and
\* another thread ran one.
C16_Witness ==
  /\ pc = "returned"
  /\ \E w, v \in Team : w # v /\ Len(worker[w].ran) = 2 /\ Len(worker[v].ran) = 1

\* ------------------------------------------------ claims on ResetByLeafPred
\* ResetByLeafPred has returned and nothing was called since.
ResetReturned == pc = "idle" /\ last = "ResetByLeafPred"

\* The example ids that leaf_pred assigns to leaf l, and to leaves below l.
Assigned(l) == {i \in DOMAIN reset_call.leaf_pred : reset_call.leaf_pred[i] = l}
AssignedBelow(l) == {i \in DOMAIN reset_call.leaf_pred : reset_call.leaf_pred[i] < l}

\* C17: ResetByLeafPred(leaf_pred, new_num_leaves) sets num_leaves to
\* new_num_leaves and lays the buckets out one after another in increasing leaf
\* id order: leaf_begin[l] is the number of examples with a leaf id below l,
\* leaf_count[l] the number of examples with leaf id l, and the range of leaf l
\* holds exactly those example ids in increasing order.
C17_ResetByLeafPred ==
  ResetReturned =>
    /\ num_leaves = reset_call.num_leaves
    /\ DOMAIN leaf_begin = Leaves
    /\ DOMAIN leaf_count = Leaves
    /\ \A l \in Leaves :
         /\ leaf_begin[l] = Cardinality(AssignedBelow(l))
         /\ leaf_count[l] = Cardinality(Assigned(l))
         /\ \A p \in LeafRange(l) :
              /\ p \in DOMAIN indices
              /\ indices[p] \in Assigned(l)
              /\ p > leaf_begin[l] => indices[p - 1] < indices[p]

\* C17 witness: three examples are bucketed into leaves 1, 0, 1 of three
\* leaves, on a store that has a bagging subset set.
C17_Witness ==
  /\ ResetReturned
  /\ num_leaves = 3
  /\ num_data = 3
  /\ reset_call.leaf_pred[0] = 1
  /\ reset_call.leaf_pred[1] = 0
  /\ reset_call.leaf_pred[2] = 1
  /\ used_data_indices # Null

\* The store invariants after ResetByLeafPred, for a total of n active ids.
ResetInvariants(n) ==
  /\ SumTo(leaf_count, num_leaves) = n
  /\ \A l \in Leaves :
       /\ \A p \in LeafRange(l) : p \in DOMAIN indices /\ indices[p] \in Assigned(l)
       /\ \A i \in Assigned(l) : Cardinality({p \in LeafRange(l) : indices[p] = i}) = 1
  /\ \A l1, l2 \in Leaves : l1 # l2 => LeafRange(l1) \cap LeafRange(l2) = {}
  /\ UNION {LeafRange(l) : l \in Leaves} = 0..(n - 1)

\* C18: after ResetByLeafPred, with or without a bagging subset, the leaf
\* counts add up to num_data (to used_data_count under bagging), every leaf's
\* range holds exactly the ids assigned to the leaf, each once, and the ranges
\* are disjoint and tile [0, total_active_count).
C18_ResetInvariants == ResetReturned => ResetInvariants(TotalActive)

\* C18 as amended: after ResetByLeafPred with one valid leaf id per example,
\* the leaf counts add up to num_data whether or not a bagging subset is set,
\* every leaf's range holds exactly the ids assigned to the leaf, each once,
\* and the ranges are disjoint and tile [0, num_data).
C18_ResetInvariantsAllData == ResetReturned => ResetInvariants(num_data)

\* C18 witness: ResetByLeafPred has returned on a store whose bagging subset
\* is smaller than num_data, with two leaves that are not empty.
C18_Witness ==
  /\ ResetReturned
  /\ used_data_indices # Null
  /\ used_data_count < num_data
  /\ \E l1, l2 \in Leaves : l1 # l2 /\ leaf_count[l1] > 0 /\ leaf_count[l2] > 0

\* ------------------------------------------------- claims on reuse and frames
\* C21: ResetLeaves(new_num_leaves) changes only the leaf bookkeeping:
\* num_leaves becomes new_num_leaves and leaf_begin and leaf_count get that
\* many entries, while indices, the scratch buffers, the per-block arrays,
\* num_data and the bagging reference and its length stay as they are.
C21_ResetLeavesFrame ==
  [][ResetLeaves =>
       /\ num_leaves' = resize_call'.num_leaves
       /\ DOMAIN leaf_begin' = 0..(resize_call'.num_leaves - 1)
       /\ DOMAIN leaf_count' = 0..(resize_call'.num_leaves - 1)
       /\ indices' = indices
       /\ temp_left_indices' = temp_left_indices
       /\ temp_right_indices' = temp_right_indices
       /\ <<offsets_buf, left_cnts_buf, right_cnts_buf, left_write_pos_buf,
             right_write_pos_buf>>' =
          <<offsets_buf, left_cnts_buf, right_cnts_buf, left_write_pos_buf,
            right_write_pos_buf>>
       /\ num_data' = num_data
       /\ used_data_indices' = used_data_indices
       /\ used_data_count' = used_data_count]_vars

\* C21 witness: ResetLeaves has returned for the second time, down to one
\* leaf, on a store that holds a bagging subset and whose indices an earlier
\* Init has filled from a subset.
C21_Witness ==
  /\ pc = "idle"
  /\ last = "ResetLeaves"
  /\ resizes = 2
  /\ num_leaves = 1
  /\ used_data_indices # Null
  /\ used_data_count >= 1
  /\ inits >= 1
  /\ indices[0] # 0

\* C22: SetUsedDataIndices(ptr, count) only stores the reference and its
\* length: indices, leaf_begin, leaf_count, num_data and num_leaves stay as
\* they are; the subset takes effect at the next Init, which copies the subset
\* as the caller's buffer holds it at that moment; with a null reference the
\* next Init lays out the identity over num_data.
C22_SetUsedDataIndicesFrame ==
  [][/\ SetUsedDataIndices =>
          /\ indices' = indices
          /\ leaf_begin' = leaf_begin
          /\ leaf_count' = leaf_count
          /\ num_data' = num_data
          /\ num_leaves' = num_leaves
     /\ InitSized =>
          IF used_data_indices = Null
          THEN /\ leaf_count'[0] = num_data
               /\ \A i \in 0..(num_data - 1) : indices'[i] = i
          ELSE /\ leaf_count'[0] = used_data_count
               /\ Slice(indices', 0, used_data_count)
                    = SubSeq(used_data_indices, 1, used_data_count)
    ]_vars

\* C22 witness: after an Init under a subset of two ids the caller has
\* rewritten its buffer; the store still holds what Init copied.
C22_Witness ==
  /\ pc = "idle"
  /\ last = "Init"
  /\ used_data_indices # Null
  /\ used_data_count = 2
  /\ leaf_count[0] = 2
  /\ Slice(indices, 0, 2) # used_data_indices

\* C27: the store is reusable across trees: after any sequence of operations,
\* ResetLeaves(k) and/or ResetNumData(n) followed by Init() without a bagging
\* subset leave num_leaves = k, leaf_count[0] = n, every other leaf empty,
\* every leaf_begin 0 and indices the identity on 0..n-1, whether k and n are
\* smaller or larger than before (k and n are the sizes of the constructor
\* where the store was not resized).
C27_ReusableAfterReset ==
  (pc = "idle" /\ last = "Init" /\ used_data_indices = Null) =>
    LET k == resize_call.num_leaves
        n == resize_call.num_data
    IN /\ num_leaves = k
       /\ num_data = n
       /\ DOMAIN leaf_begin = 0..(k - 1)
       /\ DOMAIN leaf_count = 0..(k - 1)
       /\ \A l \in 0..(k - 1) : leaf_begin[l] = 0
       /\ leaf_count[0] = n
       /\ \A l \in 1..(k - 1) : leaf_count[l] = 0
       /\ DOMAIN indices = 0..(n - 1)
       /\ \A i \in 0..(n - 1) : indices[i] = i

\* C27 witness: Init has returned on a store that was split and then resized
\* twice, to three leaves and three rows.
C27_Witness ==
  /\ pc = "idle"
  /\ last = "Init"
  /\ resizes = 2
  /\ splits >= 1
  /\ inits = 2
  /\ init_run = 1
  /\ resize_call = [num_leaves |-> 3, num_data |-> 3]

\* ------------------------------------------------- claims on the allocator
\* C23: allocate(n) has exactly these outcomes: n = 0 returns null, with no
\* error and no allocation; n above the addressable maximum (n elements do
\* not fit std::size_t) throws the length error before any allocation is
\* attempted; otherwise _mm_malloc is called once, for n * sizeof(T) bytes,
\* and its failure is thrown as out-of-memory while its block is returned;
\* no failure is retried or swallowed.
C23_AllocateOutcomes ==
  /\ alloc.at = "malloc" =>
       /\ alloc.n > 0
       /\ alloc.n * alloc.size_of < SizeMod
       /\ alloc.bytes = alloc.n * alloc.size_of
       /\ alloc.mallocs = 1
  /\ alloc.at = "done" =>
       IF alloc.n = 0
       THEN alloc.ret = "null" /\ alloc.mallocs = 0
       ELSE IF alloc.n * alloc.size_of >= SizeMod
            THEN alloc.ret = "length_error" /\ alloc.mallocs = 0
            ELSE /\ alloc.mallocs = 1
                 /\ alloc.bytes = alloc.n * alloc.size_of
                 /\ alloc.pv = "NULL" => alloc.ret = "bad_alloc"
                 /\ alloc.pv = "block" => alloc.ret = "block"
                 /\ alloc.pv \in {"NULL", "block"}

\* C23 witness: the largest request that passes the guard (15 elements of two
\* bytes) has reached _mm_malloc, which failed.
C23_Witness ==
  /\ alloc.at = "done"
  /\ alloc.n = 15
  /\ alloc.size_of = 2
  /\ alloc.ret = "bad_alloc"

\* ------------------------------------------------ claims on the phases of Split
\* C24: in Split, for every num_blocks that Threading::For returns (every
\* cnt >= 0), left_write_pos[i] is the sum of the left counts of the blocks
\* 0..i-1 and right_write_pos[i] the sum of their right counts, and the total
\* left count is the sum of all per-block left counts.
C24_PrefixSums ==
  pc = "merge" =>
    /\ \A i \in Blocks :
         /\ left_write_pos_buf[i] = SumTo(left_cnts_buf, i)
         /\ right_write_pos_buf[i] = SumTo(right_cnts_buf, i)
    /\ call.left_cnt = SumTo(left_cnts_buf, call.nblock)

\* The indices of the sub-range [block_start, block_end) of the call x of
\* inner_fun (none when block_end <= block_start).
SubRange(x) == x[2]..(x[3] - 1)

\* C26: the tasks of one Threading::For call divide [start, end) into
\* contiguous blocks: every index of [start, end) lies in the sub-range of
\* exactly one task, the sub-ranges come in increasing block index order, and
\* no sub-range holds an index outside [start, end).
C26_ForTiles ==
  ForReturned =>
    /\ \A p \in for_call.start..(for_call.end - 1) :
         Cardinality({x \in DOMAIN invoked : p \in SubRange(x)}) = 1
    /\ \A x \in DOMAIN invoked : SubRange(x) \subseteq for_call.start..(for_call.end - 1)
    /\ \A x, y \in DOMAIN invoked :
         x[1] < y[1] => \A p \in SubRange(x), q \in SubRange(y) : p < q
    /\ \A x \in DOMAIN invoked :
         SubRange(x) # {} =>
           \/ x[2] = for_call.start
           \/ \E y \in DOMAIN invoked : y[1] = x[1] - 1 /\ y[3] = x[2]

\* C26 witness: a call with start > 0 has returned after three tasks; the
\* first two sub-ranges hold two and one index, the third starts beyond end.
C26_Witness ==
  /\ ForReturned
  /\ for_call.start = 1
  /\ for_call.end = 4
  /\ DOMAIN invoked = {<<0, 1, 3>>, <<1, 3, 4>>, <<2, 5, 4>>}

\* The sub-range of block i of the Split call, and the ids of its slice of
\* the parent leaf (none when the sub-range is empty).
BlockRange(i) == ForBlock(0, call.cnt, call.block_size, i)
BlockIds(i) ==
  LET n == BlockRange(i).inner_end - BlockRange(i).inner_start
  IN IF n <= 0 THEN <<>> ELSE Slice(pre.indices, call.begin + BlockRange(i).inner_start, n)

\* C25: when the merge phase of Split starts, every block launched by
\* Threading::For has recorded its left count (what the oracle returns for its
\* slice), its right count (slice length minus left count) and its offset in
\* the scratch buffers (its block start), a block with an empty sub-range
\* included.
C25_BlockRecords ==
  pc = "merge" =>
    \A i \in Blocks :
      /\ left_cnts_buf[i] = Len(DatasetSplit(BlockIds(i), call.goLeft).lte)
      /\ right_cnts_buf[i] = Len(BlockIds(i)) - left_cnts_buf[i]
      /\ offsets_buf[i] = BlockRange(i).inner_start

\* The cells of the scratch buffers that iteration i of the copy loop reads
\* (lines 155 and 157).
LeftSource(i) == offsets_buf[i]..(offsets_buf[i] + left_cnts_buf[i] - 1)
RightSource(i) == offsets_buf[i]..(offsets_buf[i] + right_cnts_buf[i] - 1)

\* C29: the scratch buffers are written before they are read: every cell of
\* temp_left and temp_right that the merge phase of a Split reads was written
\* by the oracle in the partition phase of that same call, for every number
\* of blocks, blocks with an empty sub-range included.
C29_WriteBeforeRead ==
  pc = "merge" =>
    \A i \in Blocks :
      /\ \A p \in LeftSource(i) : p \in DOMAIN stamp.left /\ stamp.left[p] = splits
      /\ \A p \in RightSource(i) : p \in DOMAIN stamp.right /\ stamp.right[p] = splits

\* C29 witness: the copy loop of a second Split on the store has run; the
\* call had three blocks, the third with an empty sub-range, and both scratch
\* buffers hold cells that only the first Split wrote.
C29_Witness ==
  /\ pc = "merge"
  /\ todo = {}
  /\ splits = 2
  /\ call.nblock = 3
  /\ BlockRange(2).inner_end <= BlockRange(2).inner_start
  /\ left_cnts_buf[0] >= 1
  /\ right_cnts_buf[1] >= 1
  /\ \E p \in DOMAIN stamp.left : stamp.left[p] = 1
  /\ \E p \in DOMAIN stamp.right : stamp.right[p] = 1

\* C28: termination: under fair scheduling of the tasks and with an oracle
\* and a body that return on every slice, every Threading::For call and every
\* Split call in flight (in its partition or in its merge phase) returns to
\* its caller, whatever the number of blocks and the interleaving.
C28_Termination ==
  (pc \in {"For", "partition", "merge"}) ~> (ForReturned \/ SplitReturned)

\* C28 witness: the second Split call on a store has returned after a
\* partition phase of two blocks that both held ids.
C28_Witness ==
  /\ SplitReturned
  /\ splits = 2
  /\ call.nblock = 2
  /\ left_cnts_buf[0] + right_cnts_buf[0] >= 1
  /\ left_cnts_buf[1] + right_cnts_buf[1] >= 1

\* The index set of each of the five per-block arrays, as sized by the
\* constructor.
BlockSlots ==
  DOMAIN offsets_buf \cap DOMAIN left_cnts_buf \cap DOMAIN right_cnts_buf
    \cap DOMAIN left_write_pos_buf \cap DOMAIN right_write_pos_buf

\* C30: every block index that Split uses on its per-block arrays lies within
\* the arrays as sized at construction: the indices 0..num_blocks-1 of the
\* partition bodies and of the copy loop, and the indices 0 and num_blocks-1
\* of the prefix-sum step; for every cnt >= 0 and every ambient thread count
\* at the time of the call.
C30_BlockIndexInBounds ==
  /\ pc = "partition" => Blocks \subseteq BlockSlots
  /\ pc = "merge" =>
       /\ Blocks \subseteq BlockSlots
       /\ 0 \in BlockSlots
       /\ call.nblock - 1 \in BlockSlots

\* ------------------------------------------------ claims on the edges of Split
\* C31: Split on a leaf whose count is 0 is well defined: the total left count
\* is read at a block index inside the per-block arrays, and when the call
\* has returned leaf_count[leaf] = 0, leaf_count[right_leaf] = 0,
\* leaf_begin[right_leaf] = leaf_begin[leaf] and indices is as it was.
C31_EmptyLeafSplit ==
  /\ (pc = "merge" /\ call.cnt = 0) => call.nblock - 1 \in DOMAIN left_cnts_buf
  /\ (SplitReturned /\ call.cnt = 0) =>
       /\ leaf_count[call.leaf] = 0
       /\ leaf_count[call.right_leaf] = 0
       /\ leaf_begin[call.right_leaf] = leaf_begin[call.leaf]
       /\ indices = pre.indices

\* C32: every task launched by Threading::For receives a well-formed
\* sub-range, start <= block_start <= block_end <= end, for every count, every
\* min_block_size >= 1 and every thread count, also when the alignment makes
\* num_blocks * block_size exceed the count by more than one block.
C32_WellFormedSubRange ==
  ForEntered =>
    \A x \in DOMAIN invoked :
      /\ for_call.start <= x[2]
      /\ x[2] <= x[3]
      /\ x[3] <= for_call.end

\* What holds of the sub-ranges instead: a task starts at or after start and
\* ends at or before end, and its sub-range is inverted exactly when its block
\* starts beyond end; its end is then end itself.
C32_SubRangeClamped ==
  ForEntered =>
    \A x \in DOMAIN invoked :
      /\ for_call.start <= x[2]
      /\ x[3] <= for_call.end
      /\ x[2] > x[3] <=> x[2] > for_call.end
      /\ x[2] > x[3] => x[3] = for_call.end

\* A sequential single-pass stable partition of the parent range of the last
\* Split call: the ids routed left in their original order, then the ids
\* routed right in theirs, and the leaf boundaries that go with them.
SequentialLayout ==
  [indices |-> WriteSeq(LeftIds \o RightIds, pre.indices, call.begin),
   leaf_begin |-> [pre.leaf_begin EXCEPT ![call.right_leaf] = call.begin + Len(LeftIds)],
   leaf_count |-> [pre.leaf_count EXCEPT ![call.leaf] = Len(LeftIds),
                                         ![call.right_leaf] = Len(RightIds)]]

\* C33: the layout Split produces does not depend on the parallelism: for
\* every number of blocks from 1 to the thread count and every order in which
\* the blocks run, indices, leaf_begin and leaf_count are after the call what
\* a sequential single-pass stable partition of the parent range gives.
C33_SequentialLayout ==
  (SplitReturned /\ call.nblock >= 1) => Snapshot(Store) = SequentialLayout

\* C33 witness: a Split over three blocks has returned, on a parent range that
\* does not start at 0, with ids routed left in two blocks and ids routed
\* right in two blocks.
C33_Witness ==
  /\ SplitReturned
  /\ call.nblock = 3
  /\ call.begin > 0
  /\ Cardinality({i \in Blocks : left_cnts_buf[i] >= 1}) >= 2
  /\ Cardinality({i \in Blocks : right_cnts_buf[i] >= 1}) >= 2
  /\ Snapshot(Store) = SequentialLayout

\* The positions of the parent range [begin, begin + cnt) of the last Split call.
ParentRange == call.begin..(call.begin + call.cnt - 1)

\* What a Split call leaves alone in the arrays: the cells of indices outside
\* the parent range, leaf_begin[leaf], and the begin and count of every leaf
\* other than leaf and right_leaf.
SplitFrameCells ==
  /\ \A p \in DOMAIN indices : p \notin ParentRange => indices[p] = pre.indices[p]
  /\ leaf_begin[call.leaf] = pre.leaf_begin[call.leaf]
  /\ \A l \in Leaves \ {call.leaf, call.right_leaf} :
       /\ leaf_begin[l] = pre.leaf_begin[l]
       /\ leaf_count[l] = pre.leaf_count[l]

\* The id sequence of every leaf other than leaf and right_leaf is what it
\* was before the last Split call.
OtherLeavesKeepIds ==
  \A l \in Leaves \ {call.leaf, call.right_leaf} :
    GetIndexOnLeaf(Store, l) = GetIndexOnLeaf(pre, l)

\* C34: frame of Split: a Split call leaves unchanged every cell of indices
\* outside the parent range, leaf_begin[leaf], leaf_begin[l] and leaf_count[l]
\* of every leaf l other than leaf and right_leaf, num_data, num_leaves and
\* the bagging reference; hence GetIndexOnLeaf gives for every other leaf the
\* same id sequence before and after the call.
C34_SplitFrame ==
  /\ [](SplitReturned => (SplitFrameCells /\ OtherLeavesKeepIds))
  /\ [][(pc # "idle" \/ pc' # "idle") => UNCHANGED <<num_data, num_leaves, bag_vars>>]_vars

\* C35: serialised Splits on different leaves commute: for two distinct
\* leaves A and B with ranges that do not overlap and two distinct unused
\* right leaves X and Y, with oracle decisions that depend only on the id,
\* Split(A -> X) followed by Split(B -> Y) gives the same indices, leaf_begin
\* and leaf_count as Split(B -> Y) followed by Split(A -> X).
C35_SplitsCommute ==
  (SplitReturned /\ swap.done) => Snapshot(Store) = swap.st

\* The same for two leaves that both hold ids.
C35_SplitsCommuteNonEmpty ==
  (SplitReturned /\ swap.done /\ swap.first.cnt > 0 /\ call.cnt > 0) =>
    Snapshot(Store) = swap.st

\* ------------------------------------------------ claims on Init and BlockInfo
\* C36: Init under bagging stays inside the buffer of the store: after any
\* sequence of ResetNumData, SetUsedDataIndices(ptr, count) and Init calls on
\* a constructed store, Init writes exactly the cells indices[0..count), none
\* at or beyond the length of indices, and leaves leaf_count[0] no greater
\* than the length of indices.
C36_InitInsideBuffer ==
  [][(InitInBuffer \/ InitOverflows) =>
       /\ leaf_count'[0] <= Cardinality(DOMAIN indices)
       /\ used_data_indices # Null =>
            /\ used_data_count <= Cardinality(DOMAIN indices)
            /\ \A p \in DOMAIN indices :
                 indices'[p] = IF p < used_data_count THEN used_data_indices[p + 1]
                               ELSE indices[p]
    ]_vars

\* C37: BlockInfo is free of integer wrap-around over the whole index type:
\* for every count from 0 to the largest value of the signed INDEX_T, every
\* min_count_per_block >= 1 and every thread count T >= 1, the intermediate
\* values (count + min_count_per_block - 1, the round-up of the block size
\* to the alignment) stay within the range of the type, num_blocks lies in
\* 0..T, block_size is >= 0 and num_blocks * block_size >= count.
C37_NoWrapAround ==
  info.at = "done" =>
    /\ \A x \in info.inter : InIndexT(x)
    /\ info.nblock \in 0..omp_threads
    /\ info.block_size >= 0
    /\ info.nblock * info.block_size >= info.cnt

\* The same for the counts that leave room below the largest value of
\* INDEX_T for the minimum block size and for the thread count.
C37_NoWrapAroundBelowTop ==
  (/\ info.at = "done"
   /\ info.cnt + info.min_cnt_per_block <= IndexMax
   /\ info.cnt + omp_threads <= IndexMax) =>
    /\ \A x \in info.inter : InIndexT(x)
    /\ info.nblock \in 0..omp_threads
    /\ info.block_size >= 0
    /\ info.nblock * info.block_size >= info.cnt

====
